---- MODULE Spec2Model ----
(***************************************************************************)
(* MedScribe: rule-based medical report summarizer.                        *)
(*                                                                         *)
(* Text representation.  A Python str is modelled as a sequence of tokens. *)
(* A token is either one non-word character (" ", "\n", ".", ":", ...) or  *)
(* a maximal run of letters, or a maximal run of digits ("81mg" is the two *)
(* adjacent tokens "81","mg": together they are one \w+ run).  Regular     *)
(* expressions of the source are translated to matchers over tokens; a     *)
(* literal keyword of a pattern matches whole tokens, so the input         *)
(* vocabulary holds no word that contains a pattern keyword as a proper    *)
(* substring.  Len(t) of a token is its number of characters.              *)
(***************************************************************************)
EXTENDS Naturals, Integers, Sequences, FiniteSets, TLC

VARIABLES
    text,       \* the str handed to the summarizer / extractor
    opts,       \* options dict: length, include_medications, ...
    hashSeed,   \* the running interpreter's str-hash seed (orders set())
    doctor,     \* last return of generate_doctor_summary (with its parts)
    patient,    \* last return of generate_patient_summary (with its parts)
    info,       \* last return of extract_key_information
    raw,        \* the str handed to clean_text
    cleaned,    \* clean_text(raw)
    recleaned,  \* clean_text(clean_text(raw))
    extracted,  \* last return of extract_sections
    uploaded,   \* the file in the application's file_uploader, or NoFile
    session,    \* the application's st.session_state: key -> value
    reruns      \* number of script reruns of the application so far

vars == <<text, opts, hashSeed, doctor, patient, info, raw, cleaned, recleaned,
          extracted, uploaded, session, reruns>>

-----------------------------------------------------------------------------
(* Bounds of the model *)

\* lines per generated input text
MaxLines == 2
\* number of distinct interpreter hash seeds explored
NumSeeds == 2
\* fragments per generated raw document
MaxFragments == 2
MaxReruns == 3

-----------------------------------------------------------------------------
(* Characters and tokens *)

\* \s
Whitespace == {" ", "\n"}

\* string.punctuation (the members the model's alphabet uses)
Punctuation == {".", ",", ";", ":", "!", "?", "-", "(", ")", "/", "[", "]", "*", "'"}

\* characters that are neither \w nor \s
NonWordChars == Punctuation \cup {"°"}

\* digit runs of the vocabulary
NumberTokens == {"1", "2", "3", "5", "10", "25", "72", "80", "81", "120",
                 "03", "14", "45", "85", "98", "6", "123", "130", "555", "986", "2024", "4567",
                 "6789", "12345", "1234567", "5551234567"}

IsSpace(t) == t \in Whitespace
IsWordTok(t) == t \notin Whitespace /\ t \notin NonWordChars
IsNumber(t) == t \in NumberTokens

\* str.lower / str.upper pairs of the vocabulary: <<lower, Capitalized>>
CapitalPairs == {
    <<"chief", "Chief">>, <<"complaint", "Complaint">>,
    <<"diagnosis", "Diagnosis">>, <<"acute", "Acute">>,
    <<"medications", "Medications">>, <<"aspirin", "Aspirin">>,
    <<"follow", "Follow">>, <<"up", "Up">>, <<"treated", "Treated">>,
    <<"metoprolol", "Metoprolol">>, <<"assessment", "Assessment">>,
    <<"plan", "Plan">>, <<"insulin", "Insulin">>, <<"recommendation", "Recommendation">>, <<"warfarin", "Warfarin">>,
    <<"digoxin", "Digoxin">>, <<"heparin", "Heparin">>,
    <<"statin", "Statin">>,
    <<"catheterization", "Catheterization">>, <<"angioplasty", "Angioplasty">>,
    <<"surgery", "Surgery">>, <<"biopsy", "Biopsy">>,
    <<"endoscopy", "Endoscopy">>, <<"bronchoscopy", "Bronchoscopy">>,
    <<"colonoscopy", "Colonoscopy">>, <<"echocardiogram", "Echocardiogram">>,
    <<"ct", "Ct">>, <<"scan", "Scan">>, <<"mri", "Mri">>, <<"x", "X">>,
    <<"ray", "Ray">>, <<"ultrasound", "Ultrasound">>, <<"blood", "Blood">>,
    <<"transfusion", "Transfusion">>, <<"dialysis", "Dialysis">>,
    <<"you", "You">>, <<"tests", "Tests">>, <<"doctors", "Doctors">>,
    <<"please", "Please">>, <<"we", "We">>, <<"unable", "Unable">>,
    <<"treatment", "Treatment">>, <<"procedures", "Procedures">>,
    <<"vital", "Vital">>, <<"signs", "Signs">>, <<"temp", "Temp">>,
    <<"pt", "Pt">>, <<"and", "And">>, <<"daily", "Daily">>,
    <<"taken", "Taken">>, <<"mg", "Mg">>, <<"f", "F">> }

\* <<lower, UPPER>>
UpperPairs == {
    <<"aspirin", "ASPIRIN">>, <<"mri", "MRI">>, <<"ct", "CT">>,
    <<"bp", "BP">>, <<"hr", "HR">>, <<"rr", "RR">>, <<"ssn", "SSN">>,
    <<"mrn", "MRN">>, <<"phone", "PHONE">>, <<"date", "DATE">>,
    <<"x", "X">>, <<"f", "F">> }

\* str.lower() of the cased tokens of the vocabulary
LowerMap ==
    [t \in {p[2] : p \in CapitalPairs \cup UpperPairs} |->
        (CHOOSE p \in CapitalPairs \cup UpperPairs : p[2] = t)[1]]

\* str.title() of the lower-case tokens of the vocabulary
TitleMap ==
    [l \in {p[1] : p \in CapitalPairs} |-> (CHOOSE p \in CapitalPairs : p[1] = l)[2]]

\* str.lower() of one token
Lower(t) == IF t \in DOMAIN LowerMap THEN LowerMap[t] ELSE t

\* str.title() of one token: first letter upper, the rest lower
Title(t) ==
    LET l == Lower(t) IN IF l \in DOMAIN TitleMap THEN TitleMap[l] ELSE l

\* str.lower() / str.title() of a string: title() capitalises every letter run
LowerSeq(s) == [i \in 1..Len(s) |-> Lower(s[i])]
TitleSeq(s) == [i \in 1..Len(s) |-> Title(s[i])]

-----------------------------------------------------------------------------
(* String helpers *)

Range(s) == {s[i] : i \in 1..Len(s)}

\* F applied to the value of e: e is computed once, then F reads the result
WithValue(e, F(_)) == CHOOSE r \in {F(x) : x \in {e}} : TRUE

Max(S) == CHOOSE m \in S : \A n \in S : n <= m
Min(S) == CHOOSE m \in S : \A n \in S : m <= n

\* the words of a phrase joined by single spaces
RECURSIVE Sp(_)
Sp(ws) ==
    IF Len(ws) = 0 THEN <<>>
    ELSE IF Len(ws) = 1 THEN <<ws[1]>>
    ELSE <<ws[1], " ">> \o Sp(Tail(ws))

\* sep.join(parts)
RECURSIVE Join(_, _)
Join(parts, sep) ==
    IF Len(parts) = 0 THEN <<>>
    ELSE IF Len(parts) = 1 THEN parts[1]
    ELSE parts[1] \o sep \o Join(Tail(parts), sep)

\* number of characters of the tokens lo..hi of s
RECURSIVE CharLen(_, _, _)
CharLen(s, lo, hi) ==
    IF lo > hi THEN 0
    ELSE IF lo = hi THEN Len(s[lo])
    ELSE LET mid == (lo + hi) \div 2
         IN  CharLen(s, lo, mid) + CharLen(s, mid + 1, hi)

\* s[:n] for a character count n.  A string of at most n characters is
\* returned whole; of a longer one the tokens that lie wholly within the
\* first n characters are kept.
TakeChars(s, n) ==
    SubSeq(s, 1, Max({k \in 0..Len(s) : CharLen(s, 1, k) <= n}))

\* str.strip(): leading and trailing whitespace removed
RECURSIVE LStrip(_)
LStrip(s) == IF Len(s) > 0 /\ IsSpace(s[1]) THEN LStrip(Tail(s)) ELSE s
RECURSIVE RStrip(_)
RStrip(s) ==
    IF Len(s) > 0 /\ IsSpace(s[Len(s)]) THEN RStrip(SubSeq(s, 1, Len(s) - 1)) ELSE s
Strip(s) == RStrip(LStrip(s))

\* \w on the character before / after the gap that follows token i
WordAt(s, i) == i >= 1 /\ i <= Len(s) /\ IsWordTok(s[i])
\* \b between token i and token i+1
Boundary(s, i) == WordAt(s, i) # WordAt(s, i + 1)

\* the literal lit (lower-case tokens) matches s at token i, re.IGNORECASE
MatchAt(s, lit, i) ==
    /\ i >= 1
    /\ i + Len(lit) - 1 <= Len(s)
    /\ \A k \in 1..Len(lit) : Lower(s[i + k - 1]) = lit[k]

\* the literal matches s at token i exactly (case-sensitive)
MatchExact(s, lit, i) ==
    /\ i >= 1
    /\ i + Len(lit) - 1 <= Len(s)
    /\ \A k \in 1..Len(lit) : s[i + k - 1] = lit[k]

\* first token at or after j that satisfies Stop, Len(s) + 1 if none does
FirstFrom(s, j, Stop(_)) ==
    Min({e \in j..(Len(s) + 1) : e > Len(s) \/ Stop(s[e])})

\* number of whitespace tokens starting at token j: greedy \s*
RECURSIVE WsRun(_, _)
WsRun(s, j) == IF j <= Len(s) /\ IsSpace(s[j]) THEN 1 + WsRun(s, j + 1) ELSE 0

\* the lower-cased tokens that occur in s
LowerSet(s) == {Lower(s[i]) : i \in 1..Len(s)}

-----------------------------------------------------------------------------
(* Capture patterns: keyword, optional colon, whitespace, ([^.\n]+) *)

NoMatch == [found |-> FALSE, cap |-> <<>>]

\* first token at or after a that [^.\n] does not match (greedy [^.\n]+ ends there)
CaptureEnd(s, a) == FirstFrom(s, a, LAMBDA t : t \in {".", "\n"})

\* \s* (minWs = 0) or \s+ (minWs = 1), then ([^.\n]+), from token j.  \s takes
\* all the whitespace and gives tokens back until the group can start.
TryCapture(s, j, minWs) ==
    LET k  == WsRun(s, j)
        ok == {n \in minWs..k : j + n <= Len(s) /\ s[j + n] \notin {".", "\n"}}
    IN  IF ok = {} THEN NoMatch
        ELSE LET a == j + Max(ok)
             IN  [found |-> TRUE, cap |-> SubSeq(s, a, CaptureEnd(s, a) - 1)]

\* :?\s*([^.\n]+) from token j: the colon is taken when present and given
\* back only when the rest fails without it
TryColonCapture(s, j, minWs) ==
    IF j <= Len(s) /\ s[j] = ":"
    THEN LET r == TryCapture(s, j + 1, minWs)
         IN  IF r.found THEN r ELSE TryCapture(s, j, minWs)
    ELSE TryCapture(s, j, minWs)

\* a pattern: heads = the forms of its keyword, gap = the literal after a
\* lazy .*? (<<>> when the pattern has none), colon = it has :?, minWs
Pat(heads, gap, colon, minWs) ==
    [heads |-> heads, gap |-> gap, colon |-> colon, minWs |-> minWs]

PatRest(s, p, j) ==
    IF p.colon THEN TryColonCapture(s, j, p.minWs) ELSE TryCapture(s, j, p.minWs)

\* the pattern tried with its keyword at token i
MatchPatternAt(s, p, i) ==
    LET ends == {i + Len(h) : h \in {h \in p.heads : MatchAt(s, h, i)}}
    IN  IF ends = {} THEN NoMatch
        ELSE LET j == Max(ends) IN
             IF p.gap = <<>> THEN PatRest(s, p, j)
             ELSE \* .*? : no newline, shortest gap after which the rest matches
                  LET gs == {g \in j..Len(s) :
                                /\ \A m \in j..(g - 1) : s[m] # "\n"
                                /\ MatchAt(s, p.gap, g)
                                /\ PatRest(s, p, g + Len(p.gap)).found}
                  IN  IF gs = {} THEN NoMatch
                      ELSE PatRest(s, p, Min(gs) + Len(p.gap))

\* re.search(pattern, s, re.IGNORECASE): the leftmost match.  low is
\* LowerSet(s): a pattern none of whose keyword forms begins with a token of
\* s matches nowhere.
Search(s, low, p) ==
    IF \A h \in p.heads : h[1] \notin low THEN NoMatch
    ELSE LET hits == {i \in 1..Len(s) : MatchPatternAt(s, p, i).found}
         IN  IF hits = {} THEN NoMatch ELSE MatchPatternAt(s, p, Min(hits))

\* for pattern in patterns: match = re.search(...); if match: return it
RECURSIVE FirstMatchFrom(_, _, _, _)
FirstMatchFrom(s, low, pats, n) ==
    IF n > Len(pats) THEN NoMatch
    ELSE WithValue(Search(s, low, pats[n]), LAMBDA r :
             IF r.found THEN r ELSE FirstMatchFrom(s, low, pats, n + 1))

\* the pattern whose match starts leftmost in the text, whatever its rank
FirstMatchByPosition(s, pats) ==
    LET at(n) == {i \in 1..Len(s) : MatchPatternAt(s, pats[n], i).found}
        some == {n \in 1..Len(pats) : at(n) # {}}
    IN  IF some = {} THEN NoMatch
        ELSE LET n == CHOOSE n \in some : \A m \in some : Min(at(n)) <= Min(at(m))
             IN  MatchPatternAt(s, pats[n], Min(at(n)))

FirstMatch(s, pats) ==
    WithValue(LowerSet(s), LAMBDA low : FirstMatchFrom(s, low, pats, 1))

-----------------------------------------------------------------------------
(* Sentences *)

\* str.split on any character of seps, from token i on (empty pieces kept)
RECURSIVE SplitOn(_, _, _)
SplitOn(s, seps, i) ==
    LET e == FirstFrom(s, i, LAMBDA t : t \in seps)
    IN  IF e > Len(s) THEN <<SubSeq(s, i, Len(s))>>
        ELSE <<SubSeq(s, i, e - 1)>> \o SplitOn(s, seps, e + 1)

\* sentences = re.split(r'[.!?]+', summary);
\* sentences = [s.strip() for s in sentences if s.strip()]
\* (a run of separators yields empty pieces, which the filter drops)
Sentences(s) ==
    WithValue(SplitOn(s, {".", "!", "?"}, 1), LAMBDA pieces :
        SelectSeq([i \in 1..Len(pieces) |-> Strip(pieces[i])], LAMBDA p : Len(p) > 0))

-----------------------------------------------------------------------------
(* set(): iteration order *)

\* the distinct members of L, by first occurrence
RECURSIVE Dedupe(_, _)
Dedupe(L, seen) ==
    IF Len(L) = 0 THEN <<>>
    ELSE IF L[1] \in seen THEN Dedupe(Tail(L), seen)
    ELSE <<L[1]>> \o Dedupe(Tail(L), seen \cup {L[1]})

\* the k-th arrangement of seq (factorial number system)
RECURSIVE Permute(_, _)
Permute(seq, k) ==
    IF Len(seq) <= 1 THEN seq
    ELSE LET n == Len(seq)
             idx == (k % n) + 1
             rest == SubSeq(seq, 1, idx - 1) \o SubSeq(seq, idx + 1, n)
         IN  <<seq[idx]>> \o Permute(rest, k \div n)

\* a faulty conversion: list(L), the matches as found
ListKeepAll(L, seed) == L

\* list(set(L)): the members once each, in the order the str hashes of the
\* running interpreter (PYTHONHASHSEED) put them
ListOfSet(L, seed) == Permute(Dedupe(L, {}), seed)

-----------------------------------------------------------------------------
(* utils/text_processor.py: TextProcessor *)

\* self.medical_abbreviations: <<abbreviation, expansion>>
medical_abbreviations == <<
    <<<<"pt">>, <<"patient">>>>,
    <<<<"pts">>, <<"patients">>>>,
    <<<<"hx">>, <<"history">>>>,
    <<<<"dx">>, <<"diagnosis">>>>,
    <<<<"tx">>, <<"treatment">>>>,
    <<<<"rx">>, <<"prescription">>>>,
    <<<<"sx">>, <<"symptoms">>>>,
    <<<<"f", "/", "u">>, <<"follow", "-", "up">>>>,
    <<<<"w", "/">>, <<"with">>>>,
    <<<<"w", "/", "o">>, <<"without">>>>,
    <<<<"c", "/", "o">>, Sp(<<"complains", "of">>)>>,
    <<<<"r", "/", "o">>, Sp(<<"rule", "out">>)>>,
    <<<<"sob">>, Sp(<<"shortness", "of", "breath">>)>>,
    <<<<"cp">>, Sp(<<"chest", "pain">>)>>,
    <<<<"bp">>, Sp(<<"blood", "pressure">>)>>,
    <<<<"hr">>, Sp(<<"heart", "rate">>)>>,
    <<<<"rr">>, Sp(<<"respiratory", "rate">>)>>,
    <<<<"temp">>, <<"temperature">>>>,
    <<<<"wbc">>, Sp(<<"white", "blood", "cell", "count">>)>>,
    <<<<"rbc">>, Sp(<<"red", "blood", "cell", "count">>)>>,
    <<<<"hgb">>, <<"hemoglobin">>>>,
    <<<<"hct">>, <<"hematocrit">>>>,
    <<<<"bun">>, Sp(<<"blood", "urea", "nitrogen">>)>>,
    <<<<"cr">>, <<"creatinine">>>>,
    <<<<"na">>, <<"sodium">>>>,
    <<<<"k">>, <<"potassium">>>>,
    <<<<"cl">>, <<"chloride">>>>,
    <<<<"co", "2">>, Sp(<<"carbon", "dioxide">>)>>,
    <<<<"mg">>, <<"magnesium">>>>,
    <<<<"po">>, Sp(<<"by", "mouth">>)>>,
    <<<<"iv">>, <<"intravenous">>>>,
    <<<<"im">>, <<"intramuscular">>>>,
    <<<<"bid">>, Sp(<<"twice", "daily">>)>>,
    <<<<"tid">>, Sp(<<"three", "times", "daily">>)>>,
    <<<<"qid">>, Sp(<<"four", "times", "daily">>)>>,
    <<<<"qd">>, Sp(<<"once", "daily">>)>>,
    <<<<"prn">>, Sp(<<"as", "needed">>)>>,
    <<<<"hs">>, Sp(<<"at", "bedtime">>)>>,
    <<<<"ac">>, Sp(<<"before", "meals">>)>>,
    <<<<"pc">>, Sp(<<"after", "meals">>)>> >>

\* the tokens of s at the indices K, in order
KeepIndices(s, K) ==
    LET idx == [k \in 1..Cardinality(K) |->
                   CHOOSE i \in K : Cardinality({j \in K : j < i}) = k - 1]
    IN  [k \in 1..Cardinality(K) |-> s[idx[k]]]

\* the concatenation of f[lo] .. f[hi]
RECURSIVE Flatten(_, _, _)
Flatten(f, lo, hi) ==
    IF lo > hi THEN <<>>
    ELSE IF lo = hi THEN f[lo]
    ELSE LET mid == (lo + hi) \div 2
         IN  Flatten(f, lo, mid) \o Flatten(f, mid + 1, hi)

\* re.sub(r'\s+', ' ', text.strip())
CollapseWhitespace(s) ==
    WithValue(Strip(s), LAMBDA t :
        WithValue(KeepIndices(t, {i \in 1..Len(t) : ~IsSpace(t[i]) \/ ~IsSpace(t[i - 1])}),
                  LAMBDA u : [i \in 1..Len(u) |-> IF IsSpace(u[i]) THEN " " ELSE u[i]]))

\* the characters the class [^\w\s\.,;:!?\-\(\)\/] leaves in place
KeptPunctuation == {".", ",", ";", ":", "!", "?", "-", "(", ")", "/"}

\* two tokens that form one run of letters, or one run of digits, once
\* the characters between them are deleted
SameRun(a, b) == IsWordTok(a) /\ IsWordTok(b) /\ (IsNumber(a) <=> IsNumber(b))

RECURSIVE GlueAt(_, _)
GlueAt(s, i) ==
    IF i < Len(s) /\ SameRun(s[i], s[i + 1]) THEN s[i] \o GlueAt(s, i + 1) ELSE s[i]

\* re.sub(r'[^\w\s\.,;:!?\-\(\)\/]', '', text)
RemoveArtifacts(s) ==
    WithValue(SelectSeq(s, LAMBDA t : IsWordTok(t) \/ IsSpace(t) \/ t \in KeptPunctuation),
              LAMBDA t :
        WithValue(KeepIndices([i \in 1..Len(t) |-> i],
                              {i \in 1..Len(t) : i = 1 \/ ~SameRun(t[i - 1], t[i])}),
                  LAMBDA starts : [k \in 1..Len(starts) |-> GlueAt(t, starts[k])]))

\* text.split(): the maximal runs of non-whitespace
RECURSIVE NonSpaceEnd(_, _)
NonSpaceEnd(s, i) == IF i <= Len(s) /\ ~IsSpace(s[i]) THEN NonSpaceEnd(s, i + 1) ELSE i

Words(s) ==
    WithValue(KeepIndices([i \in 1..Len(s) |-> i],
                          {i \in 1..Len(s) : ~IsSpace(s[i]) /\ (i = 1 \/ IsSpace(s[i - 1]))}),
              LAMBDA starts :
                  [k \in 1..Len(starts) |-> SubSeq(s, starts[k], NonSpaceEnd(s, starts[k]) - 1)])

\* word.strip(string.punctuation)
RECURSIVE StripPunctuation(_)
StripPunctuation(w) ==
    IF Len(w) > 0 /\ w[1] \in Punctuation THEN StripPunctuation(Tail(w))
    ELSE IF Len(w) > 0 /\ w[Len(w)] \in Punctuation
         THEN StripPunctuation(SubSeq(w, 1, Len(w) - 1))
    ELSE w

\* the body of the loop of _expand_abbreviations for one word
ExpandWord(word) ==
    WithValue(StripPunctuation(LowerSeq(word)), LAMBDA clean_word :
        LET hits == {n \in 1..Len(medical_abbreviations) :
                        medical_abbreviations[n][1] = clean_word}
        IN  IF hits = {} THEN word
            ELSE medical_abbreviations[CHOOSE n \in hits : TRUE][2]
                     \o SelectSeq(word, LAMBDA c : c \in Punctuation))

expand_abbreviations(s) ==
    WithValue(Words(s), LAMBDA words :
        Join([k \in 1..Len(words) |-> ExpandWord(words[k])], <<" ">>))

\* the class [,.;:!?] of _clean_punctuation
PunctuationMarks == {",", ".", ";", ":", "!", "?"}

\* number of whitespace tokens ending at token j
RECURSIVE WsBefore(_, _)
WsBefore(s, j) == IF j >= 1 /\ IsSpace(s[j]) THEN 1 + WsBefore(s, j - 1) ELSE 0

IsMarkAt(s, i) == i >= 1 /\ i <= Len(s) /\ s[i] \in PunctuationMarks

\* re.sub(r'\s*([,.;:!?])\s*', r'\1 ', text): a whitespace run next to a
\* mark is consumed by the match of that mark, every mark gets one space
FixSpacing(s) ==
    Flatten([i \in 1..Len(s) |->
                IF s[i] \in PunctuationMarks THEN <<s[i], " ">>
                ELSE IF IsSpace(s[i]) /\ (\/ IsMarkAt(s, i + WsRun(s, i))
                                          \/ IsMarkAt(s, i - WsBefore(s, i)))
                     THEN <<>>
                ELSE <<s[i]>>],
            1, Len(s))

\* re.sub(r'([,.;:!?]){2,}', r'\1', text): a run of marks keeps its last one
CollapseMarks(s) ==
    KeepIndices(s, {i \in 1..Len(s) : ~(IsMarkAt(s, i) /\ IsMarkAt(s, i + 1))})

\* the loop over text.split('.') of _clean_punctuation for one piece
CleanSentence(piece) ==
    WithValue(Strip(piece), LAMBDA sentence :
        IF Len(sentence) > 0 /\ sentence[Len(sentence)] \notin {".", "!", "?"}
        THEN sentence \o <<".">>
        ELSE sentence)

clean_punctuation(s) ==
    WithValue(CollapseMarks(FixSpacing(s)), LAMBDA t :
        WithValue(SplitOn(t, {"."}, 1), LAMBDA sentences :
            Join(SelectSeq([k \in 1..Len(sentences) |-> CleanSentence(sentences[k])],
                           LAMBDA c : Len(c) > 0),
                 <<" ">>)))

\* a run of exactly n digits at token i
Digits(s, i, n) == i >= 1 /\ i <= Len(s) /\ IsNumber(s[i]) /\ Len(s[i]) = n
SepAt(s, i) == i <= Len(s) /\ s[i] \in {"-", "."}

\* number of tokens the PHI pattern matches at token i, 0 when it does not
\*   ssn   \b\d{3}-\d{2}-\d{4}\b
\*   phone \b\d{3}[-.]?\d{3}[-.]?\d{4}\b
\*   date  \b\d{1,2}/\d{1,2}/\d{4}\b
\*   mrn   \bMRN:?\s*\d+\b  (IGNORECASE)
PhiMatchLen(kind, s, i) ==
    IF ~(WordAt(s, i) /\ Boundary(s, i - 1)) THEN 0
    ELSE IF kind = "ssn" THEN
        IF /\ Digits(s, i, 3) /\ i + 4 <= Len(s) /\ s[i + 1] = "-"
           /\ Digits(s, i + 2, 2) /\ s[i + 3] = "-" /\ Digits(s, i + 4, 4)
           /\ Boundary(s, i + 4)
        THEN 5 ELSE 0
    ELSE IF kind = "phone" THEN
        IF Digits(s, i, 10) /\ Boundary(s, i) THEN 1
        ELSE IF /\ Digits(s, i, 3) /\ SepAt(s, i + 1) /\ Digits(s, i + 2, 7)
                /\ Boundary(s, i + 2) THEN 3
        ELSE IF /\ Digits(s, i, 6) /\ SepAt(s, i + 1) /\ Digits(s, i + 2, 4)
                /\ Boundary(s, i + 2) THEN 3
        ELSE IF /\ Digits(s, i, 3) /\ SepAt(s, i + 1) /\ Digits(s, i + 2, 3)
                /\ SepAt(s, i + 3) /\ Digits(s, i + 4, 4) /\ Boundary(s, i + 4) THEN 5
        ELSE 0
    ELSE IF kind = "date" THEN
        IF /\ (Digits(s, i, 1) \/ Digits(s, i, 2)) /\ i + 4 <= Len(s) /\ s[i + 1] = "/"
           /\ (Digits(s, i + 2, 1) \/ Digits(s, i + 2, 2)) /\ s[i + 3] = "/"
           /\ Digits(s, i + 4, 4) /\ Boundary(s, i + 4)
        THEN 5 ELSE 0
    ELSE IF Lower(s[i]) # "mrn" THEN 0
    ELSE LET c == IF i + 1 <= Len(s) /\ s[i + 1] = ":" THEN 1 ELSE 0
             d == i + 1 + c + WsRun(s, i + 1 + c)
         IN  IF d <= Len(s) /\ IsNumber(s[d]) /\ Boundary(s, d) THEN d - i + 1 ELSE 0

\* re.sub(pattern, repl, text) from token i on
RECURSIVE SubPhiFrom(_, _, _, _)
SubPhiFrom(s, i, kind, repl) ==
    LET hits == {m \in i..Len(s) : PhiMatchLen(kind, s, m) > 0}
    IN  IF hits = {} THEN SubSeq(s, i, Len(s))
        ELSE LET m == Min(hits)
             IN  SubSeq(s, i, m - 1) \o repl
                     \o SubPhiFrom(s, m + PhiMatchLen(kind, s, m), kind, repl)

\* clean_text without its last step
KeepPhi(s) == s

remove_phi_patterns(s) ==
    WithValue(SubPhiFrom(s, 1, "ssn", <<"[", "SSN", "]">>), LAMBDA a :
    WithValue(SubPhiFrom(a, 1, "phone", <<"[", "PHONE", "]">>), LAMBDA b :
    WithValue(SubPhiFrom(b, 1, "date", <<"[", "DATE", "]">>), LAMBDA c :
        SubPhiFrom(c, 1, "mrn", <<"[", "MRN", "]">>))))

clean_text(s) ==
    IF Len(s) = 0 THEN <<>>
    ELSE WithValue(CollapseWhitespace(s), LAMBDA a :
         WithValue(RemoveArtifacts(a), LAMBDA b :
         WithValue(expand_abbreviations(b), LAMBDA c :
         WithValue(clean_punctuation(c), LAMBDA d : remove_phi_patterns(d)))))

\* self.section_headers
section_headers == <<
    [name |-> "chief complaint", lit |-> <<"chief", " ", "complaint">>],
    [name |-> "history of present illness",
     lit |-> <<"history", " ", "of", " ", "present", " ", "illness">>],
    [name |-> "past medical history", lit |-> <<"past", " ", "medical", " ", "history">>],
    [name |-> "medications", lit |-> <<"medications">>],
    [name |-> "allergies", lit |-> <<"allergies">>],
    [name |-> "social history", lit |-> <<"social", " ", "history">>],
    [name |-> "family history", lit |-> <<"family", " ", "history">>],
    [name |-> "review of systems", lit |-> <<"review", " ", "of", " ", "systems">>],
    [name |-> "physical examination", lit |-> <<"physical", " ", "examination">>],
    [name |-> "assessment", lit |-> <<"assessment">>],
    [name |-> "plan", lit |-> <<"plan">>],
    [name |-> "discharge summary", lit |-> <<"discharge", " ", "summary">>],
    [name |-> "impression", lit |-> <<"impression">>],
    [name |-> "recommendations", lit |-> <<"recommendations">>],
    [name |-> "procedures", lit |-> <<"procedures">>],
    [name |-> "laboratory results", lit |-> <<"laboratory", " ", "results">>],
    [name |-> "imaging", lit |-> <<"imaging">>],
    [name |-> "vital signs", lit |-> <<"vital", " ", "signs">>] >>

\* the lookahead (?=\n\s*(?:\bh1\b|...|\bhn\b)|$) at token e of the lowered text
SectionEndsAt(t, e) ==
    \/ e > Len(t)
    \/ e = Len(t) /\ t[e] = "\n"                    \* $ before a final newline
    \/ /\ t[e] = "\n"
       /\ LET q == e + 1 + WsRun(t, e + 1)
          IN  \E n \in 1..Len(section_headers) :
                 LET h == section_headers[n].lit
                 IN  /\ MatchExact(t, h, q)
                     /\ Boundary(t, q - 1)
                     /\ Boundary(t, q + Len(h) - 1)

\* the lazy (.*?) from token c: it ends at the first token where the lookahead holds
SectionEnd(t, c) == Min({e \in c..(Len(t) + 1) : SectionEndsAt(t, e)})

\* re.search(rf'\b{header}:?\s*\n?(.*?)(?=...)', text_lower, DOTALL | IGNORECASE)
\* then match.group(1).strip(); <<>> when there is no match
SectionContent(t, h) ==
    LET hits == IF h[1] \in Range(t)
                THEN {i \in 1..Len(t) : MatchExact(t, h, i) /\ Boundary(t, i - 1)}
                ELSE {}
    IN  IF hits = {} THEN <<>>
        ELSE LET j == Min(hits) + Len(h)
                 j2 == IF j <= Len(t) /\ t[j] = ":" THEN j + 1 ELSE j
                 c == j2 + WsRun(t, j2)
             IN  Strip(SubSeq(t, c, SectionEnd(t, c) - 1))

\* TextProcessor.extract_sections: header name -> content, non-empty contents only
extract_sections(txt) ==
    WithValue(LowerSeq(txt), LAMBDA text_lower :
    WithValue([n \in 1..Len(section_headers) |->
                  SectionContent(text_lower, section_headers[n].lit)], LAMBDA content :
        LET kept == {n \in 1..Len(section_headers) : Len(content[n]) > 0}
        IN  [name \in {section_headers[n].name : n \in kept} |->
                content[CHOOSE n \in kept : section_headers[n].name = name]]))

\* first token at or after i that is not part of the \w+ run
RECURSIVE WordRunEnd(_, _)
WordRunEnd(s, i) ==
    IF i <= Len(s) /\ IsWordTok(s[i]) THEN WordRunEnd(s, i + 1) ELSE i

NoMed == [found |-> FALSE, group |-> <<>>, end |-> 0]

\* \b(\w+)\s+\d+\s*<unit>\b at token i (unit = mg, mcg), re.IGNORECASE
MedDoseAt(s, i, unit) ==
    IF ~(IsWordTok(s[i]) /\ Boundary(s, i - 1)) THEN NoMed
    ELSE LET e == WordRunEnd(s, i)
             d == e + WsRun(s, e)
             m == d + 1 + WsRun(s, d + 1)
         IN  IF /\ d > e
                /\ d <= Len(s) /\ IsNumber(s[d])
                /\ m <= Len(s) /\ Lower(s[m]) = unit
                /\ ~WordAt(s, m + 1)
             THEN [found |-> TRUE, group |-> SubSeq(s, i, e - 1), end |-> m + 1]
             ELSE NoMed

\* \b(\w+)\s+<form>\b at token i (form = tablet, capsule), re.IGNORECASE
MedFormAt(s, i, form) ==
    IF ~(IsWordTok(s[i]) /\ Boundary(s, i - 1)) THEN NoMed
    ELSE LET e == WordRunEnd(s, i)
             m == e + WsRun(s, e)
         IN  IF /\ m > e
                /\ m <= Len(s) /\ Lower(s[m]) = form
                /\ ~WordAt(s, m + 1)
             THEN [found |-> TRUE, group |-> SubSeq(s, i, e - 1), end |-> m + 1]
             ELSE NoMed

\* the four med_patterns, in order: <<kind, keyword>>
med_patterns == << <<"dose", "mg">>, <<"dose", "mcg">>,
                   <<"form", "tablet">>, <<"form", "capsule">> >>

MedAt(s, i, pat) ==
    IF pat[1] = "dose" THEN MedDoseAt(s, i, pat[2]) ELSE MedFormAt(s, i, pat[2])

\* re.findall(pattern, text, re.IGNORECASE): the groups of the non-overlapping
\* matches, left to right
RECURSIVE FindAllMeds(_, _, _)
FindAllMeds(s, i, pat) ==
    LET hits == {k \in i..Len(s) : MedAt(s, k, pat).found}
    IN  IF hits = {} THEN <<>>
        ELSE LET m == MedAt(s, Min(hits), pat)
             IN  <<m.group>> \o FindAllMeds(s, m.end, pat)

\* info['medications'] before the set(): [med.title() for med in matches] of
\* every pattern, appended in pattern order
MedicationMatches(s) ==
    WithValue(FindAllMeds(s, 1, med_patterns[1]) \o FindAllMeds(s, 1, med_patterns[2])
              \o FindAllMeds(s, 1, med_patterns[3]) \o FindAllMeds(s, 1, med_patterns[4]),
              LAMBDA all : [n \in 1..Len(all) |-> TitleSeq(all[n])])

\* procedure_keywords, lower-cased
procedure_keywords == <<
    <<"catheterization">>, <<"angioplasty">>, <<"surgery">>, <<"biopsy">>,
    <<"endoscopy">>, <<"bronchoscopy">>, <<"colonoscopy">>, <<"echocardiogram">>,
    <<"ct", " ", "scan">>, <<"mri">>, <<"x", "-", "ray">>, <<"ultrasound">>,
    <<"blood", " ", "transfusion">>, <<"dialysis">> >>

\* keyword.lower() in text.lower()
Contains(t, lit) == lit[1] \in Range(t) /\ \E i \in 1..Len(t) : MatchExact(t, lit, i)

\* info['procedures'] before the set(): keyword.title() of each keyword present
ProcedureMatches(s) ==
    WithValue(LowerSeq(s), LAMBDA t :
    WithValue(SelectSeq(procedure_keywords, LAMBDA k : Contains(t, k)), LAMBDA present :
        [n \in 1..Len(present) |-> TitleSeq(present[n])]))

\* the value group of a vital pattern at token v of the lowered text:
\* (\d+/\d+), (\d+), (\d+\.?\d*)
VitalValue(t, v, kind) ==
    IF ~(v <= Len(t) /\ IsNumber(t[v])) THEN <<>>
    ELSE IF kind = "ratio"
         THEN IF v + 2 <= Len(t) /\ t[v + 1] = "/" /\ IsNumber(t[v + 2])
              THEN SubSeq(t, v, v + 2) ELSE <<>>
    ELSE IF kind = "decimal"
         THEN IF v + 1 <= Len(t) /\ t[v + 1] = "."
              THEN IF v + 2 <= Len(t) /\ IsNumber(t[v + 2])
                   THEN SubSeq(t, v, v + 2) ELSE SubSeq(t, v, v + 1)
              ELSE <<t[v]>>
    ELSE <<t[v]>>

\* vital_patterns, in dict order: key, label keyword, value shape
vital_patterns == <<
    [key |-> "blood_pressure", label |-> "bp", kind |-> "ratio"],
    [key |-> "heart_rate", label |-> "hr", kind |-> "int"],
    [key |-> "temperature", label |-> "temp", kind |-> "decimal"],
    [key |-> "respiratory_rate", label |-> "rr", kind |-> "int"] >>

\* label:?\s*(value) with the label at token i of the lowered text
VitalAt(t, i, vp) ==
    IF t[i] # vp.label THEN <<>>
    ELSE LET j == IF i + 1 <= Len(t) /\ t[i + 1] = ":" THEN i + 2 ELSE i + 1
         IN  VitalValue(t, j + WsRun(t, j), vp.kind)

\* the value of the last labelled reading instead of the first
VitalSearchLast(t, vp) ==
    LET hits == {i \in 1..Len(t) : Len(VitalAt(t, i, vp)) > 0}
    IN  IF hits = {} THEN <<>>
        ELSE VitalAt(t, CHOOSE i \in hits : \A k \in hits : k <= i, vp)

\* re.search(pattern, text.lower()): group(1) of the leftmost match, <<>> if none
VitalSearch(t, vp) ==
    LET hits == {i \in 1..Len(t) : Len(VitalAt(t, i, vp)) > 0}
    IN  IF hits = {} THEN <<>> ELSE VitalAt(t, Min(hits), vp)

\* info['vital_signs']: key -> value, only the keys that matched
VitalSigns(s) ==
    WithValue(LowerSeq(s), LAMBDA t :
    WithValue([n \in 1..Len(vital_patterns) |-> VitalSearch(t, vital_patterns[n])],
              LAMBDA value :
        LET found == {n \in 1..Len(vital_patterns) : Len(value[n]) > 0}
        IN  [key \in {vital_patterns[n].key : n \in found} |->
                value[CHOOSE n \in found : vital_patterns[n].key = key]]))

\* TextProcessor.extract_key_information (diagnoses and recommendations stay [])
extract_key_information(s, seed) ==
    WithValue(MedicationMatches(s), LAMBDA meds :
    WithValue(ProcedureMatches(s), LAMBDA procs :
        [medications |-> ListOfSet(meds, seed),
         procedures  |-> ListOfSet(procs, seed),
         vital_signs |-> VitalSigns(s)]))

-----------------------------------------------------------------------------
(* utils/pdf_extractor.py: PDFExtractor *)

\* the characters of the alphabet in [\x00-\x08\x0b\x0c\x0e-\x1f\x7f-\xff]
ControlChars == {"°"}

\* re.sub(r'[\x00-\x08\x0b\x0c\x0e-\x1f\x7f-\xff]', '', text)
RemoveControlChars(s) ==
    WithValue(SelectSeq(s, LAMBDA t : t \notin ControlChars), LAMBDA t :
        WithValue(KeepIndices([i \in 1..Len(t) |-> i],
                              {i \in 1..Len(t) : i = 1 \/ ~SameRun(t[i - 1], t[i])}),
                  LAMBDA starts : [k \in 1..Len(starts) |-> GlueAt(t, starts[k])]))

\* number of tokens (\w)-\s*\n\s*(\w) matches with its first word at token
\* i, 0 when it does not: a word, '-', whitespace with a newline, a word
HyphenBreakAt(s, i) ==
    IF ~(i + 1 <= Len(s) /\ IsWordTok(s[i]) /\ s[i + 1] = "-") THEN 0
    ELSE LET k == WsRun(s, i + 2)
         IN  IF /\ \E m \in (i + 2)..(i + 1 + k) : s[m] = "\n"
                /\ i + 2 + k <= Len(s)
                /\ IsWordTok(s[i + 2 + k])
             THEN k + 3 ELSE 0

\* re.sub(r'(\w)-\s*\n\s*(\w)', r'\1\2', text) from token i on
RECURSIVE RejoinFrom(_, _)
RejoinFrom(s, i) ==
    LET hits == {m \in i..Len(s) : HyphenBreakAt(s, m) > 0}
    IN  IF hits = {} THEN SubSeq(s, i, Len(s))
        ELSE LET m == Min(hits)
                 n == HyphenBreakAt(s, m)
             IN  SubSeq(s, i, m - 1)
                     \o (IF SameRun(s[m], s[m + n - 1])
                         THEN <<s[m] \o s[m + n - 1]>> ELSE <<s[m], s[m + n - 1]>>)
                     \o RejoinFrom(s, m + n)

\* re.sub(r'\s+([,.;:!?])', r'\1', text)
DropSpaceBeforeMarks(s) ==
    KeepIndices(s, {i \in 1..Len(s) : ~(IsSpace(s[i]) /\ IsMarkAt(s, i + WsRun(s, i)))})

\* PDFExtractor._clean_extracted_text.  The first two substitutions
\* (\n\s*\n -> \n\n, [ \t]+ -> ' ') rewrite whitespace runs into whitespace
\* runs and keep their newlines; the last one turns every run into one space.
clean_extracted_text(s) ==
    IF Len(s) = 0 THEN <<>>
    ELSE WithValue(RemoveControlChars(s), LAMBDA a :
         WithValue(RejoinFrom(a, 1), LAMBDA b :
         WithValue(DropSpaceBeforeMarks(b), LAMBDA c : CollapseWhitespace(c))))

\* PDFExtractor.extract_text on a readable file with the page texts pages:
\* every non-empty page text and a newline, then _clean_extracted_text
extract_text(pages) ==
    clean_extracted_text(
        Flatten([n \in 1..Len(pages) |->
                    IF Len(pages[n]) > 0 THEN pages[n] \o <<"\n">> ELSE <<>>],
                1, Len(pages)))

-----------------------------------------------------------------------------
(* utils/summarizer.py: MedicalSummarizer *)

\* self.patient_translations, in dict order: <<medical term (lowered), patient term>>
patient_translations == <<
    << <<"myocardial", " ", "infarction">>, <<"heart", " ", "attack">> >>,
    << <<"hypertension">>, <<"high", " ", "blood", " ", "pressure">> >>,
    << <<"diabetes", " ", "mellitus">>, <<"diabetes">> >>,
    << <<"cerebrovascular", " ", "accident">>, <<"stroke">> >>,
    << <<"pneumonia">>, <<"lung", " ", "infection">> >>,
    << <<"gastroenteritis">>, <<"stomach", " ", "bug">> >>,
    << <<"urinary", " ", "tract", " ", "infection">>, <<"bladder", " ", "infection">> >>,
    << <<"angina">>, <<"chest", " ", "pain">> >>,
    << <<"arrhythmia">>, <<"irregular", " ", "heartbeat">> >>,
    << <<"tachycardia">>, <<"fast", " ", "heart", " ", "rate">> >>,
    << <<"bradycardia">>, <<"slow", " ", "heart", " ", "rate">> >>,
    << <<"dyspnea">>, <<"trouble", " ", "breathing">> >>,
    << <<"syncope">>, <<"fainting">> >>,
    << <<"edema">>, <<"swelling">> >>,
    << <<"hemorrhage">>, <<"bleeding">> >>,
    << <<"fracture">>, <<"broken", " ", "bone">> >>,
    << <<"laceration">>, <<"cut">> >>,
    << <<"contusion">>, <<"bruise">> >>,
    << <<"antibiotic">>, <<"infection", " ", "medicine">> >>,
    << <<"analgesic">>, <<"pain", " ", "medicine">> >>,
    << <<"catheterization">>,
       <<"procedure", " ", "to", " ", "open", " ", "blocked", " ", "blood", " ", "vessels">> >>,
    << <<"angioplasty">>,
       <<"procedure", " ", "to", " ", "open", " ", "blocked", " ", "blood", " ", "vessels">> >>,
    << <<"stent">>,
       <<"small", " ", "tube", " ", "to", " ", "keep", " ", "blood", " ", "vessels", " ", "open">> >>,
    << <<"biopsy">>, <<"tissue", " ", "sample", " ", "test">> >>,
    << <<"ct", " ", "scan">>, <<"detailed", " ", "X", "-", "ray">> >>,
    << <<"mri">>, <<"detailed", " ", "body", " ", "scan">> >>,
    << <<"echocardiogram">>, <<"heart", " ", "ultrasound">> >>,
    << <<"endoscopy">>, <<"camera", " ", "examination">> >>,
    << <<"prognosis">>, <<"outlook">> >>,
    << <<"acute">>, <<"sudden">> >>,
    << <<"chronic">>, <<"long", "-", "term">> >> >>

diagnosis_patterns == <<
    Pat({<<"diagnosis">>}, <<>>, TRUE, 0),
    Pat({<<"diagnosed", " ", "with">>}, <<>>, FALSE, 1),
    Pat({<<"impression">>}, <<>>, TRUE, 0),
    Pat({<<"assessment">>}, <<>>, TRUE, 0) >>

treatment_patterns == <<
    Pat({<<"treatment">>}, <<>>, TRUE, 0),
    Pat({<<"treated", " ", "with">>}, <<>>, FALSE, 1),
    Pat({<<"plan">>}, <<>>, TRUE, 0) >>

\* follow[-\s]?up:? | recommendation:? | discharge.*?instructions:?
rec_patterns == <<
    Pat({<<"follow", "-", "up">>, <<"follow", " ", "up">>, <<"follow", "\n", "up">>,
         <<"followup">>}, <<>>, TRUE, 0),
    Pat({<<"recommendation">>}, <<>>, TRUE, 0),
    Pat({<<"discharge">>}, <<"instructions">>, TRUE, 0) >>

\* chief complaint:? | presenting complaint:? | came.*?because of\s+
reason_patterns == <<
    Pat({<<"chief", " ", "complaint">>}, <<>>, TRUE, 0),
    Pat({<<"presenting", " ", "complaint">>}, <<>>, TRUE, 0),
    Pat({<<"came">>}, <<"because", " ", "of">>, FALSE, 1) >>

\* return match.group(1).strip() of the first pattern that matches, else ""
FirstCapture(txt, pats) ==
    WithValue(FirstMatch(txt, pats), LAMBDA m : IF m.found THEN Strip(m.cap) ELSE <<>>)

extract_diagnosis_info(txt) == FirstCapture(txt, diagnosis_patterns)

\* the treatment lookup without its procedures fallback
TreatmentWithoutFallback(txt, key_info) == FirstCapture(txt, treatment_patterns)

extract_treatment_info(txt, key_info) ==
    WithValue(FirstMatch(txt, treatment_patterns), LAMBDA m :
        IF m.found THEN Strip(m.cap)
        ELSE IF Len(key_info.procedures) > 0
             THEN Join(SubSeq(key_info.procedures, 1, Min({2, Len(key_info.procedures)})),
                       <<",", " ">>)
        ELSE <<>>)

extract_recommendations(txt) == FirstCapture(txt, rec_patterns)

\* one entry of vital_strings
VitalString(key, value) ==
    CASE key = "blood_pressure" -> <<"BP", " ">> \o value
      [] key = "heart_rate" -> <<"HR", " ">> \o value
      [] key = "temperature" -> <<"Temp", " ">> \o value \o <<"°", "F">>
      [] key = "respiratory_rate" -> <<"RR", " ">> \o value

\* _format_vitals: the dict is walked in insertion order, the order of vital_patterns
format_vitals(vitals) ==
    LET keys == SelectSeq([n \in 1..Len(vital_patterns) |-> vital_patterns[n].key],
                          LAMBDA k : k \in DOMAIN vitals)
    IN  Join([n \in 1..Len(keys) |-> VitalString(keys[n], vitals[keys[n]])], <<",", " ">>)

\* max_sentences = {'short': 3, 'medium': 5, 'long': 8}.get(length, 5)
DoctorMaxSentences(length) ==
    CASE length = "short" -> 3 [] length = "medium" -> 5 [] length = "long" -> 8
      [] OTHER -> 5

\* max_sentences = {'short': 2, 'medium': 4, 'long': 6}.get(length, 4)
PatientMaxSentences(length) ==
    CASE length = "short" -> 2 [] length = "medium" -> 4 [] length = "long" -> 6
      [] OTHER -> 4

\* a faulty cap: every sentence is kept
KeepAllSentences(sentences, max) ==
    Join(sentences, <<".", " ">>) \o <<".">>

\* '. '.join(sentences[:max_sentences]) + '.'
CapSentences(sentences, max) ==
    Join(SubSeq(sentences, 1, max), <<".", " ">>) \o <<".">>

adjust_summary_length(summary, length) ==
    WithValue(Sentences(summary), LAMBDA sentences :
        LET max_sentences == DoctorMaxSentences(length)
        IN  IF Len(sentences) > max_sentences
            THEN CapSentences(sentences, max_sentences)
            ELSE summary)

adjust_patient_summary(summary, length) ==
    WithValue(Sentences(summary), LAMBDA sentences :
        LET max_sentences == PatientMaxSentences(length)
        IN  WithValue(IF Len(sentences) > max_sentences
                      THEN CapSentences(sentences, max_sentences)
                      ELSE summary, LAMBDA capped :
                \* if not summary.endswith('.'): summary += '.'
                IF Len(capped) > 0 /\ capped[Len(capped)] = "." THEN capped
                ELSE capped \o <<".">>))

\* a faulty gate: the block is added whatever the flag says
IncludeRegardless(flag, content) == Len(content) > 0

\* if options['include_...'] and <content>: the block is added
IncludeBlock(flag, content) == flag /\ Len(content) > 0

\* f"**{label}**: {body}"
Block(label, body) == <<"*", "*">> \o label \o <<"*", "*", ":", " ">> \o body

\* sections['chief complaint'][:200]
ChiefComplaintChars == 200

DoctorPlaceholder ==
    Sp(<<"Unable", "to", "generate", "professional", "summary", "from", "the",
         "provided", "text">>) \o <<".">>

\* summary_parts of generate_doctor_summary: <<label name, rendered block>>.
\* (important_sentences, line 64, is computed and never read: it has no part
\* in the returned string.)
DoctorParts(txt, options, seed) ==
    WithValue(extract_key_information(txt, seed), LAMBDA key_info :
    WithValue(extract_sections(txt), LAMBDA sections :
    WithValue(extract_diagnosis_info(txt), LAMBDA diagnosis_info :
    WithValue(extract_treatment_info(txt, key_info), LAMBDA treatment_info :
    WithValue(extract_recommendations(txt), LAMBDA recommendations :
    WithValue(format_vitals(key_info.vital_signs), LAMBDA vitals :
    LET n_meds == Min({5, Len(key_info.medications)})
        n_procs == Min({3, Len(key_info.procedures)})
    IN  (IF "chief complaint" \in DOMAIN sections
         THEN << <<"Chief Complaint",
                   Block(<<"Chief", " ", "Complaint">>,
                         TakeChars(sections["chief complaint"], ChiefComplaintChars)
                            \o <<".", ".", ".">>)>> >>
         ELSE <<>>)
     \o (IF Len(diagnosis_info) > 0
         THEN << <<"Diagnosis", Block(<<"Diagnosis">>, diagnosis_info)>> >>
         ELSE <<>>)
     \o (IF Len(treatment_info) > 0
         THEN << <<"Treatment", Block(<<"Treatment">>, treatment_info)>> >>
         ELSE <<>>)
     \o (IF IncludeBlock(options.include_medications, key_info.medications)
         THEN << <<"Medications",
                   Block(<<"Medications">>,
                         Join(SubSeq(key_info.medications, 1, n_meds), <<",", " ">>))>> >>
         ELSE <<>>)
     \o (IF IncludeBlock(options.include_procedures, key_info.procedures)
         THEN << <<"Procedures",
                   Block(<<"Procedures">>,
                         Join(SubSeq(key_info.procedures, 1, n_procs), <<",", " ">>))>> >>
         ELSE <<>>)
     \o (IF IncludeBlock(options.include_recommendations, recommendations)
         THEN << <<"Follow-up", Block(<<"Follow", "-", "up">>, recommendations)>> >>
         ELSE <<>>)
     \o (IF DOMAIN key_info.vital_signs # {} /\ Len(vitals) > 0
         THEN << <<"Vital Signs", Block(<<"Vital", " ", "Signs">>, vitals)>> >>
         ELSE <<>>) ))))))

\* a faulty return: "return summary", without the placeholder
DoctorSummaryNoFallback(txt, options, seed) ==
    WithValue(DoctorParts(txt, options, seed), LAMBDA summary_parts :
        [parts |-> summary_parts,
         summary |-> adjust_summary_length(
                         Join([n \in 1..Len(summary_parts) |-> summary_parts[n][2]],
                              <<"\n", "\n">>),
                         options.length)])

\* MedicalSummarizer.generate_doctor_summary: the returned str, with the
\* summary_parts it was built from
generate_doctor_summary(txt, options, seed) ==
    WithValue(DoctorParts(txt, options, seed), LAMBDA summary_parts :
    WithValue(Join([n \in 1..Len(summary_parts) |-> summary_parts[n][2]], <<"\n", "\n">>),
              LAMBDA joined :
    WithValue(adjust_summary_length(joined, options.length), LAMBDA summary :
        [parts |-> summary_parts,
         summary |-> IF Len(summary) > 0 THEN summary ELSE DoctorPlaceholder])))

\* a faulty reason: no default sentence when no pattern matches
ReasonWithoutDefault(txt) ==
    WithValue(FirstMatch(txt, reason_patterns), LAMBDA m :
        IF m.found
        THEN Sp(<<"You", "came", "to", "the", "hospital", "because", "of">>)
                \o <<" ">> \o LowerSeq(Strip(m.cap)) \o <<".">>
        ELSE <<>>)

\* _extract_patient_reason
extract_patient_reason(txt) ==
    WithValue(FirstMatch(txt, reason_patterns), LAMBDA m :
        IF m.found
        THEN Sp(<<"You", "came", "to", "the", "hospital", "because", "of">>)
                \o <<" ">> \o LowerSeq(Strip(m.cap)) \o <<".">>
        ELSE Sp(<<"You", "came", "to", "the", "hospital", "for", "medical", "care">>)
                \o <<".">>)

\* _extract_patient_diagnosis
extract_patient_diagnosis(txt) ==
    WithValue(extract_diagnosis_info(txt), LAMBDA diagnosis :
        IF Len(diagnosis) > 0
        THEN Sp(<<"Tests", "and", "examinations", "showed", "that", "you", "have">>)
                \o <<" ">> \o LowerSeq(diagnosis) \o <<".">>
        ELSE <<>>)

\* _extract_patient_treatment
extract_patient_treatment(txt, key_info) ==
    WithValue(extract_treatment_info(txt, key_info), LAMBDA treatment :
        IF Len(treatment) > 0
        THEN Sp(<<"Doctors", "provided", "treatment", "including">>)
                \o <<" ">> \o LowerSeq(treatment) \o <<".">>
        ELSE <<>>)

\* _explain_medications_to_patient
explain_medications_to_patient(medications) ==
    IF Len(medications) = 0 THEN <<>>
    ELSE IF Len(medications) = 1
    THEN Sp(<<"You", "have", "been", "given", "medicine", "called">>) \o <<" ">>
            \o medications[1] \o <<" ">>
            \o Sp(<<"to", "help", "with", "your", "condition">>) \o <<".">>
    ELSE Sp(<<"You", "have", "been", "given", "medicines", "including">>) \o <<" ">>
            \o Join(SubSeq(medications, 1, Min({3, Len(medications)})), <<",", " ">>)
            \o <<" ">> \o Sp(<<"to", "help", "with", "your", "condition">>) \o <<".">>

\* a faulty next-steps clause: no default when nothing matches
NextStepsWithoutDefault(txt) ==
    WithValue(extract_recommendations(txt), LAMBDA recommendations :
        IF Len(recommendations) > 0
        THEN <<"Please", " ">> \o LowerSeq(recommendations)
        ELSE <<>>)

\* _extract_patient_next_steps
extract_patient_next_steps(txt) ==
    WithValue(extract_recommendations(txt), LAMBDA recommendations :
        IF Len(recommendations) > 0
        THEN <<"Please", " ">> \o LowerSeq(recommendations)
        ELSE Sp(<<"Please", "follow", "up", "with", "your", "doctor", "as",
                  "recommended">>) \o <<".">>)

\* re.sub(r'\b' + re.escape(term) + r'\b', repl, s, flags=re.IGNORECASE) from
\* token i on: leftmost matches, not overlapping, the replacement not rescanned
RECURSIVE SubTermFrom(_, _, _, _)
SubTermFrom(s, i, term, repl) ==
    LET hits == {k \in i..Len(s) : /\ MatchAt(s, term, k)
                                   /\ Boundary(s, k - 1)
                                   /\ Boundary(s, k + Len(term) - 1)}
    IN  IF hits = {} THEN SubSeq(s, i, Len(s))
        ELSE SubSeq(s, i, Min(hits) - 1) \o repl
                \o SubTermFrom(s, Min(hits) + Len(term), term, repl)

\* a faulty pass: the table entry 'acute' is skipped
SubTermKeepAcute(st, term, repl) ==
    IF term = <<"acute">> \/ term[1] \notin st.low THEN st
    ELSE WithValue(SubTermFrom(st.str, 1, term, repl),
                   LAMBDA r : [str |-> r, low |-> LowerSet(r)])

\* one pass on st = [str, low], low being LowerSet(str): a term whose first
\* word does not occur in the string leaves it unchanged
SubTerm(st, term, repl) ==
    IF term[1] \notin st.low THEN st
    ELSE WithValue(SubTermFrom(st.str, 1, term, repl),
                   LAMBDA r : [str |-> r, low |-> LowerSet(r)])

\* the passes lo..hi of _translate_for_patients, in table order: the loop
\* "for medical_term, patient_term in self.patient_translations.items()"
RECURSIVE TranslateRange(_, _, _)
TranslateRange(st, lo, hi) ==
    IF lo = hi
    THEN SubTerm(st, patient_translations[lo][1], patient_translations[lo][2])
    ELSE LET mid == (lo + hi) \div 2
         IN  WithValue(TranslateRange(st, lo, mid),
                       LAMBDA r : TranslateRange(r, mid + 1, hi))

translate_for_patients(s) ==
    WithValue([str |-> s, low |-> LowerSet(s)], LAMBDA st :
        TranslateRange(st, 1, Len(patient_translations)).str)

PatientPlaceholder ==
    Sp(<<"We", "are", "unable", "to", "create", "a", "simple", "summary", "of", "your",
         "medical", "report", "at", "this", "time">>) \o <<".", " ">>
    \o Sp(<<"Please", "ask", "your", "doctor", "to", "explain", "your", "results">>)
    \o <<".">>

\* summary_parts of generate_patient_summary: <<clause name, clause>>
PatientParts(txt, options, seed) ==
    WithValue(extract_key_information(txt, seed), LAMBDA key_info :
    WithValue(extract_patient_reason(txt), LAMBDA reason :
    WithValue(extract_patient_diagnosis(txt), LAMBDA diagnosis :
    WithValue(extract_patient_treatment(txt, key_info), LAMBDA treatment :
    WithValue(explain_medications_to_patient(key_info.medications), LAMBDA med_explanation :
    WithValue(extract_patient_next_steps(txt), LAMBDA next_steps :
        (IF Len(reason) > 0 THEN << <<"reason", reason>> >> ELSE <<>>)
     \o (IF Len(diagnosis) > 0 THEN << <<"diagnosis", diagnosis>> >> ELSE <<>>)
     \o (IF Len(treatment) > 0 THEN << <<"treatment", treatment>> >> ELSE <<>>)
     \o (IF IncludeBlock(options.include_medications, key_info.medications)
            /\ Len(med_explanation) > 0
         THEN << <<"medications", med_explanation>> >> ELSE <<>>)
     \o (IF IncludeBlock(options.include_recommendations, next_steps)
         THEN << <<"next_steps", next_steps>> >> ELSE <<>>) ))))))

\* MedicalSummarizer.generate_patient_summary: the returned str, with the
\* summary_parts it was built from
generate_patient_summary(txt, options, seed) ==
    WithValue(PatientParts(txt, options, seed), LAMBDA summary_parts :
    WithValue(Join([n \in 1..Len(summary_parts) |-> summary_parts[n][2]], <<" ">>),
              LAMBDA joined :
    WithValue(translate_for_patients(joined), LAMBDA translated :
    WithValue(adjust_patient_summary(translated, options.length), LAMBDA summary :
        [parts |-> summary_parts,
         summary |-> IF Len(summary) > 0 THEN summary ELSE PatientPlaceholder]))))

-----------------------------------------------------------------------------
(* Inputs *)

\* report lines the input texts are made of
Lines == <<
    <<"Chief", " ", "Complaint", ":", " ", "chest", " ", "pain">>,
    <<"Diagnosis", ":", " ", "Acute", " ", "myocardial", " ", "infarction">>,
    <<"Medications", ":", " ", "Aspirin", " ", "81", "mg", " ", "daily">>,
    <<"Follow", "-", "up", ":", " ", "cardiology", " ", "in", " ", "1", " ", "week">>,
    <<"chief", " ", "complaint", ":", " ", "pain", "!", " ", "severe", "?", " ", "yes">>,
    <<"Treated", " ", "with", " ", "Metoprolol", " ", "25", " ", "mg", " ", "and", " ",
      "aspirin", " ", "tablet", ".", " ", "Recommendation", ":", " ", "surgery">>,
    <<"Assessment", ":", " ", "angina", ".", " ", "Plan", ":", " ", "surgery">>,
    <<"BP", ":", " ", "120", "/", "80", ",", " ", "HR", ":", " ", "72">>,
    <<"MRI", ",", " ", "biopsy", ",", " ", "dialysis", " ", "and", " ", "CT", " ",
      "scan", " ", "done">>,
    <<"Insulin", " ", "5", " ", "mg", ",", " ", "Warfarin", " ", "2", " ", "mg", ",", " ",
      "Digoxin", " ", "1", " ", "mg", ",", " ", "Heparin", " ", "3", " ", "mg">>,
    <<"Diagnosis", ":", " ", ".", " ", "BP", " ", "130", "/", "85", ",", " ",
      "Temp", " ", "98", ".", "6", " ", "RR", ":", " ", "14">> >>

\* the end-to-end example of the specification
ExampleText == Join(<<Lines[1], Lines[2], Lines[3], Lines[4]>>, <<"\n">>)

\* '\n'.join of up to MaxLines lines, plus the whitespace-only text, the
\* example, and the example as the application hands it over (cleaned)
Texts ==
    {Join([k \in 1..n |-> Lines[f[k]]], <<"\n">>) :
        n \in 0..MaxLines, f \in [1..MaxLines -> 1..Len(Lines)]}
    \cup {<<" ", " ">>, ExampleText, clean_text(ExampleText)}

\* pieces the raw documents handed to clean_text are made of
Fragments == <<
    <<"123", "-", "45", "-", "6789">>,
    <<"555", "-", "123", "-", "4567">>,
    <<"555", ".", "123", ".", "4567">>,
    <<"03", "/", "14", "/", "2024">>,
    <<"MRN", ":", " ", "12345">>,
    <<"pt", " ", "c", "/", "o", " ", "cp">>,
    <<"BP", ":", " ", "120", "/", "80">>,
    <<"Temp", " ", "98", ".", "6", "°", "F">>,
    <<"(", "pt", ")", " ", "w", "/", " ", "sob", ".">>,
    <<"seen", " ", " ", "today", "\n">>,
    <<"SSN">>,
    <<"BP", ":", " ", "120", "/", "80", ",", " ", "HR", ":", " ", "72">> >>

\* ' '.join of up to MaxFragments fragments
RawTexts ==
    {Join([k \in 1..n |-> Fragments[f[k]]], <<" ">>) :
        n \in 0..MaxFragments, f \in [1..MaxFragments -> 1..Len(Fragments)]}

Options ==
    [length : {"short", "medium", "long"},
     include_medications : BOOLEAN,
     include_procedures : BOOLEAN,
     include_recommendations : BOOLEAN]

Seeds == 0..(NumSeeds - 1)

NotCalled == [called |-> FALSE, parts |-> <<>>, summary |-> <<>>]
NoInfo == [called |-> FALSE, medications |-> <<>>, procedures |-> <<>>,
           vital_signs |-> <<>>]
NoText == [called |-> FALSE, str |-> <<>>]
NoSections == [called |-> FALSE, map |-> <<>>]

\* st.file_uploader returns None
NoFile == [name |-> "", type |-> "", readable |-> FALSE, pages |-> <<>>]

\* st.session_state of a new session: no key
NoSession == <<>>

-----------------------------------------------------------------------------
(* The summarizer called on a text: Spec *)

Init ==
    /\ text \in Texts
    /\ opts \in Options
    /\ hashSeed \in Seeds
    /\ doctor = NotCalled
    /\ patient = NotCalled
    /\ info = NoInfo
    /\ raw = <<>>
    /\ cleaned = NoText
    /\ recleaned = NoText
    /\ extracted = NoSections
    /\ uploaded = NoFile
    /\ session = NoSession
    /\ reruns = 0

\* summarizer.generate_doctor_summary(text, options)
GenerateDoctorSummary ==
    /\ doctor' = [called |-> TRUE] @@ generate_doctor_summary(text, opts, hashSeed)
    /\ UNCHANGED <<text, opts, hashSeed, patient, info, raw, cleaned, recleaned,
                 extracted, uploaded, session, reruns>>

\* summarizer.generate_patient_summary(text, options)
GeneratePatientSummary ==
    /\ patient' = [called |-> TRUE] @@ generate_patient_summary(text, opts, hashSeed)
    /\ UNCHANGED <<text, opts, hashSeed, doctor, info, raw, cleaned, recleaned,
                 extracted, uploaded, session, reruns>>

\* the application is started again: a new interpreter, a new str-hash seed
RestartInterpreter ==
    /\ doctor.called \/ patient.called
    /\ hashSeed' \in Seeds \ {hashSeed}
    /\ UNCHANGED <<text, opts, doctor, patient, info, raw, cleaned, recleaned,
                 extracted, uploaded, session, reruns>>

Next ==
    \/ GenerateDoctorSummary
    \/ GeneratePatientSummary
    \/ RestartInterpreter

Spec == Init /\ [][Next]_vars

-----------------------------------------------------------------------------
(* The extractor called on a text: SpecExtract *)

InitExtract ==
    /\ text \in Texts
    /\ opts = [length |-> "medium", include_medications |-> TRUE,
               include_procedures |-> TRUE, include_recommendations |-> TRUE]
    /\ hashSeed \in Seeds
    /\ doctor = NotCalled
    /\ patient = NotCalled
    /\ info = NoInfo
    /\ raw = <<>>
    /\ cleaned = NoText
    /\ recleaned = NoText
    /\ extracted = NoSections
    /\ uploaded = NoFile
    /\ session = NoSession
    /\ reruns = 0

\* text_processor.extract_key_information(text)
ExtractKeyInformation ==
    /\ info' = [called |-> TRUE] @@ extract_key_information(text, hashSeed)
    /\ UNCHANGED <<text, opts, hashSeed, doctor, patient, raw, cleaned, recleaned,
                 extracted, uploaded, session, reruns>>

NextExtract == ExtractKeyInformation

SpecExtract == InitExtract /\ [][NextExtract]_vars

-----------------------------------------------------------------------------
(* extract_sections called on a text: SpecSections *)

\* text_processor.extract_sections(text)
ExtractSections ==
    /\ extracted' = [called |-> TRUE, map |-> extract_sections(text)]
    /\ UNCHANGED <<text, opts, hashSeed, doctor, patient, info, raw, cleaned, recleaned,
                   uploaded, session, reruns>>

NextSections == ExtractSections

SpecSections == InitExtract /\ [][NextSections]_vars

-----------------------------------------------------------------------------
(* clean_text called on a raw document, and on its own output: SpecClean *)

InitClean ==
    /\ text = <<>>
    /\ opts = [length |-> "medium", include_medications |-> TRUE,
               include_procedures |-> TRUE, include_recommendations |-> TRUE]
    /\ hashSeed = 0
    /\ doctor = NotCalled
    /\ patient = NotCalled
    /\ info = NoInfo
    /\ raw \in RawTexts
    /\ cleaned = NoText
    /\ recleaned = NoText
    /\ extracted = NoSections
    /\ uploaded = NoFile
    /\ session = NoSession
    /\ reruns = 0

\* cleaned = text_processor.clean_text(raw)
CleanText ==
    /\ cleaned' = [called |-> TRUE, str |-> clean_text(raw)]
    /\ UNCHANGED <<text, opts, hashSeed, doctor, patient, info, raw, recleaned,
                 extracted, uploaded, session, reruns>>

\* recleaned = text_processor.clean_text(cleaned)
CleanAgain ==
    /\ cleaned.called
    /\ recleaned' = [called |-> TRUE, str |-> clean_text(cleaned.str)]
    /\ UNCHANGED <<text, opts, hashSeed, doctor, patient, info, raw, cleaned,
                 extracted, uploaded, session, reruns>>

NextClean == CleanText \/ CleanAgain

SpecClean == InitClean /\ [][NextClean]_vars

-----------------------------------------------------------------------------
(* The application's pipeline, clean_text and then the summarizer on its
   output: SpecPipeline *)

\* processed_text = text_processor.clean_text(text_content), not blank;
\* doctor_summary = summarizer.generate_doctor_summary(processed_text, options)
SummarizeCleaned ==
    /\ cleaned.called
    /\ Len(Strip(cleaned.str)) > 0
    /\ text' = cleaned.str
    /\ doctor' = [called |-> TRUE] @@ generate_doctor_summary(cleaned.str, opts, hashSeed)
    /\ UNCHANGED <<opts, hashSeed, patient, info, raw, cleaned, recleaned,
                   extracted, uploaded, session, reruns>>

NextPipeline == CleanText \/ SummarizeCleaned

SpecPipeline == InitClean /\ [][NextPipeline]_vars

-----------------------------------------------------------------------------
(* app.py: the script main() rerun on every interaction, results kept in
   st.session_state: SpecApp *)

\* files the user can put into the file_uploader: text files by their
\* content, PDF files by the page texts the reader extracts; a file that is
\* not readable makes the read raise (not UTF-8, not a PDF, encrypted)
Uploads == {
    [name |-> "report.txt", type |-> "text/plain", readable |-> TRUE,
     pages |-> <<ExampleText>>],
    [name |-> "vitals.txt", type |-> "text/plain", readable |-> TRUE,
     pages |-> <<Lines[8]>>],
    [name |-> "blank.txt", type |-> "text/plain", readable |-> TRUE,
     pages |-> << <<" ", "\n">> >>],
    [name |-> "degree.txt", type |-> "text/plain", readable |-> TRUE,
     pages |-> << <<"°">> >>],
    [name |-> "binary.txt", type |-> "text/plain", readable |-> FALSE,
     pages |-> <<>>],
    [name |-> "scan.pdf", type |-> "application/pdf", readable |-> TRUE,
     pages |-> << <<"Chief", " ", "Complaint", ":", " ", "chest", "-", "\n", "pain">>,
                 Lines[9] >>],
    [name |-> "empty.pdf", type |-> "application/pdf", readable |-> TRUE,
     pages |-> << <<>>, <<"°", "\n">> >>],
    [name |-> "locked.pdf", type |-> "application/pdf", readable |-> FALSE,
     pages |-> <<>>] }

\* the keys main() stores
SessionKeys ==
    {"doctor_summary", "patient_summary", "original_length", "doctor_length",
     "patient_length"}

\* text_content, lines 65-75
text_content(up) ==
    IF up.type = "application/pdf" THEN extract_text(up.pages) ELSE up.pages[1]

\* lines 105-109
StoreResults(content, doctor_summary, patient_summary) ==
    [key \in SessionKeys |->
        CASE key = "doctor_summary" -> doctor_summary
          [] key = "patient_summary" -> patient_summary
          [] key = "original_length" -> Len(Words(content))
          [] key = "doctor_length" -> Len(Words(doctor_summary))
          [] key = "patient_length" -> Len(Words(patient_summary))]

\* a rerun that leaves one value behind before it is known to succeed
MainStoresEarly(up, options, seed, st) ==
    IF up = NoFile \/ ~up.readable THEN st
    ELSE [key \in DOMAIN st \cup {"original_length"} |->
             IF key = "original_length" THEN Len(Words(text_content(up))) ELSE st[key]]

\* one run of main() with the file up in the uploader, the widgets showing
\* options and st.session_state = st: the session state it leaves
main(up, options, seed, st) ==
    IF up = NoFile THEN st                                  \* line 60
    ELSE IF ~up.readable THEN st                            \* lines 111-113
    ELSE WithValue(text_content(up), LAMBDA content :
         IF Len(Strip(content)) = 0 THEN st                 \* lines 77-79
         ELSE WithValue(clean_text(content), LAMBDA processed_text :
              IF Len(Strip(processed_text)) = 0 THEN st     \* lines 88-90
              ELSE StoreResults(content,
                       generate_doctor_summary(processed_text, options, seed).summary,
                       generate_patient_summary(processed_text, options, seed).summary)))

\* the script's first run: no file, the widgets at their defaults
InitApp ==
    /\ text = <<>>
    /\ opts = [length |-> "short", include_medications |-> TRUE,
               include_procedures |-> TRUE, include_recommendations |-> TRUE]
    /\ hashSeed \in Seeds
    /\ doctor = NotCalled
    /\ patient = NotCalled
    /\ info = NoInfo
    /\ raw = <<>>
    /\ cleaned = NoText
    /\ recleaned = NoText
    /\ extracted = NoSections
    /\ uploaded = NoFile
    /\ session = NoSession
    /\ reruns = 0

\* the user uploads a file or replaces the uploaded one: the script reruns
UploadFile ==
    /\ reruns < MaxReruns
    /\ \E up \in Uploads \ {uploaded} :
          /\ uploaded' = up
          /\ session' = main(up, opts, hashSeed, session)
    /\ reruns' = reruns + 1
    /\ UNCHANGED <<text, opts, hashSeed, doctor, patient, info, raw, cleaned, recleaned,
                   extracted>>

\* the user removes the uploaded file: the script reruns with no file
RemoveFile ==
    /\ reruns < MaxReruns
    /\ uploaded # NoFile
    /\ uploaded' = NoFile
    /\ session' = main(NoFile, opts, hashSeed, session)
    /\ reruns' = reruns + 1
    /\ UNCHANGED <<text, opts, hashSeed, doctor, patient, info, raw, cleaned, recleaned,
                   extracted>>

\* the user changes one of the sidebar widgets: the script reruns
ChangeOption ==
    /\ reruns < MaxReruns
    /\ \E o \in Options :
          /\ Cardinality({k \in DOMAIN o : o[k] # opts[k]}) = 1
          /\ opts' = o
          /\ session' = main(uploaded, o, hashSeed, session)
    /\ reruns' = reruns + 1
    /\ UNCHANGED <<text, hashSeed, doctor, patient, info, raw, cleaned, recleaned,
                   extracted, uploaded>>

NextApp == UploadFile \/ RemoveFile \/ ChangeOption

SpecApp == InitApp /\ [][NextApp]_vars

-----------------------------------------------------------------------------
(* Properties *)

\* sub occurs in s as a contiguous run of tokens
Occurs(sub, s) ==
    \E i \in 1..(Len(s) - Len(sub) + 1) : SubSeq(s, i, i + Len(sub) - 1) = sub

StartsWith(s, prefix) ==
    Len(prefix) <= Len(s) /\ SubSeq(s, 1, Len(prefix)) = prefix

\* the summary_parts of a returned summary that carry the name
HasPart(r, name) == \E n \in 1..Len(r.parts) : r.parts[n][1] = name
PartOf(r, name) == r.parts[CHOOSE n \in 1..Len(r.parts) : r.parts[n][1] = name][2]

\* the clauses of a patient summary joined and lay-translated, before the cap
PatientAssembled(r) ==
    translate_for_patients(Join([n \in 1..Len(r.parts) |-> r.parts[n][2]], <<" ">>))

\* the blocks of a doctor summary joined, before the cap
DoctorAssembled(r) ==
    Join([n \in 1..Len(r.parts) |-> r.parts[n][2]], <<"\n", "\n">>)

\* the caps the specification states per lengthTier
StatedDoctorCap(length) ==
    CASE length = "short" -> 3 [] length = "medium" -> 5 [] length = "long" -> 8
StatedPatientCap(length) ==
    CASE length = "short" -> 2 [] length = "medium" -> 4 [] length = "long" -> 6

AllFlagsMedium ==
    [length |-> "medium", include_medications |-> TRUE,
     include_procedures |-> TRUE, include_recommendations |-> TRUE]

\* C1: for every text, every combination of include-flags and every
\* lengthTier, the returned doctor summary has at most 3 / 5 / 8 sentences
\* and the returned patient summary at most 2 / 4 / 6 (short / medium /
\* long), a sentence being a segment between runs of '.', '!', '?' that is
\* not empty once stripped.
SentenceCountWithinCap ==
    /\ doctor.called =>
           Len(Sentences(doctor.summary)) <= StatedDoctorCap(opts.length)
    /\ patient.called =>
           Len(Sentences(patient.summary)) <= StatedPatientCap(opts.length)

\* both summaries were assembled with more sentences than the cap and were cut
SentenceCapApplied ==
    /\ doctor.called /\ patient.called
    /\ Len(Sentences(DoctorAssembled(doctor))) > StatedDoctorCap(opts.length)
    /\ Len(Sentences(PatientAssembled(patient))) > StatedPatientCap(opts.length)
    /\ Len(Sentences(doctor.summary)) = StatedDoctorCap(opts.length)
    /\ Len(Sentences(patient.summary)) = StatedPatientCap(opts.length)

\* C2: an empty or whitespace-only text makes generate_patient_summary
\* return the patient apology placeholder, whatever the options.
EmptyTextGivesPatientPlaceholder ==
    (patient.called /\ Len(Strip(text)) = 0) => patient.summary = PatientPlaceholder

\* C3: generate_doctor_summary never returns an empty string; it returns the
\* placeholder exactly when no block produced content, and otherwise a
\* string that opens with the first produced block.
DoctorSummaryNeverEmpty ==
    doctor.called =>
        /\ Len(doctor.summary) > 0
        /\ (doctor.summary = DoctorPlaceholder) <=> (Len(doctor.parts) = 0)
        /\ Len(doctor.parts) > 0 =>
               /\ doctor.parts[1][1] \in
                      {"Chief Complaint", "Diagnosis", "Treatment", "Medications",
                       "Procedures", "Follow-up", "Vital Signs"}
               /\ StartsWith(doctor.summary,
                             Sentences(doctor.parts[1][2])[1])

\* a whitespace-only text was summarised: no block, the placeholder is returned
DoctorPlaceholderReturned ==
    /\ doctor.called
    /\ Len(text) > 0 /\ Len(Strip(text)) = 0
    /\ Len(doctor.parts) = 0
    /\ doctor.summary = DoctorPlaceholder

\* C4: clean_text is a fixed point on its own output:
\* clean_text(clean_text(x)) = clean_text(x) for every raw text x.
CleanTextIdempotent ==
    recleaned.called => recleaned.str = cleaned.str

ExampleCall == patient.called /\ text = ExampleText /\ opts = AllFlagsMedium

SameInputSameSummary ==
    [][/\ (doctor.called /\ doctor'.called) => doctor'.summary = doctor.summary
       /\ (patient.called /\ patient'.called) => patient'.summary = patient.summary]_vars

\* the first n entries of a list, rendered as a block
ListBlock(label, L, n) ==
    Block(label, Join(SubSeq(L, 1, Min({n, Len(L)})), <<",", " ">>))

\* "**label**" occurs in a summary
HasHeader(summary, label) == Occurs(<<"*", "*">> \o label \o <<"*", "*">>, summary)

\* C7: each include-flag gates its block.  With include_medications false
\* the doctor summary has no Medications block and the patient summary no
\* medication clause; with include_procedures false the doctor summary has
\* no Procedures block; with include_recommendations false the doctor
\* summary has no Follow-up block and the patient summary no "Please ..."
\* clause.  With a flag true the block is assembled exactly when its
\* extracted content is non-empty, medications limited to the first 5 and
\* procedures to the first 3.
FlagsGateBlocks ==
    /\ doctor.called =>
        /\ ~opts.include_medications =>
               /\ ~HasPart(doctor, "Medications")
               /\ ~HasHeader(doctor.summary, <<"Medications">>)
        /\ ~opts.include_procedures =>
               /\ ~HasPart(doctor, "Procedures")
               /\ ~HasHeader(doctor.summary, <<"Procedures">>)
        /\ ~opts.include_recommendations =>
               /\ ~HasPart(doctor, "Follow-up")
               /\ ~HasHeader(doctor.summary, <<"Follow", "-", "up">>)
        /\ opts.include_medications =>
               /\ HasPart(doctor, "Medications")
                      <=> Len(extract_key_information(text, 0).medications) > 0
               /\ HasPart(doctor, "Medications") =>
                      \E seed \in Seeds :
                          PartOf(doctor, "Medications") =
                              ListBlock(<<"Medications">>,
                                        extract_key_information(text, seed).medications, 5)
        /\ opts.include_procedures =>
               /\ HasPart(doctor, "Procedures")
                      <=> Len(extract_key_information(text, 0).procedures) > 0
               /\ HasPart(doctor, "Procedures") =>
                      \E seed \in Seeds :
                          PartOf(doctor, "Procedures") =
                              ListBlock(<<"Procedures">>,
                                        extract_key_information(text, seed).procedures, 3)
        /\ opts.include_recommendations =>
               (HasPart(doctor, "Follow-up") <=> Len(extract_recommendations(text)) > 0)
    /\ patient.called =>
        /\ ~opts.include_medications =>
               /\ ~HasPart(patient, "medications")
               /\ ~Occurs(Sp(<<"You", "have", "been", "given">>), patient.summary)
        /\ ~opts.include_recommendations =>
               /\ ~HasPart(patient, "next_steps")
               /\ "Please" \notin Range(patient.summary)
        /\ opts.include_medications =>
               (HasPart(patient, "medications")
                    <=> Len(extract_key_information(text, 0).medications) > 0)
        /\ opts.include_recommendations => HasPart(patient, "next_steps")

\* both summaries were generated with every flag off from a text that has
\* medications, procedures and a recommendation
FlagsOffOnRichText ==
    /\ doctor.called /\ patient.called
    /\ ~opts.include_medications /\ ~opts.include_procedures
    /\ ~opts.include_recommendations
    /\ Len(extract_key_information(text, 0).medications) > 0
    /\ Len(extract_key_information(text, 0).procedures) > 0
    /\ Len(extract_recommendations(text)) > 0
    /\ Len(doctor.parts) > 0

\* no two entries of L are the same word in any letter case
DistinctIgnoringCase(L) ==
    \A i, j \in 1..Len(L) : i # j => LowerSeq(L[i]) # LowerSeq(L[j])

\* C8: the medications and procedures lists returned by
\* extract_key_information hold no duplicates: every medication word
\* matched, however often, by whichever pattern and in whichever letter
\* case, appears exactly once, in title case; every procedure keyword
\* present in the text appears exactly once.
NoDuplicateEntries ==
    info.called =>
        /\ DistinctIgnoringCase(info.medications)
        /\ DistinctIgnoringCase(info.procedures)
        /\ \A m \in Range(MedicationMatches(text)) :
               Cardinality({i \in 1..Len(info.medications) :
                               info.medications[i] = TitleSeq(m)}) = 1
        /\ \A i \in 1..Len(info.medications) :
               info.medications[i] = TitleSeq(info.medications[i])
        /\ \A k \in Range(procedure_keywords) :
               Contains(LowerSeq(text), k) =>
                   Cardinality({i \in 1..Len(info.procedures) :
                                   info.procedures[i] = TitleSeq(k)}) = 1

\* a text that mentions "Aspirin 81mg" twice was extracted: one "Aspirin"
AspirinTwiceListedOnce ==
    /\ info.called
    /\ text = Join(<<Lines[3], Lines[3]>>, <<"\n">>)
    /\ Len(MedicationMatches(text)) = 2
    /\ info.medications = << <<"Aspirin">> >>

\* C9 (as the code has it): the reason clause is always the first clause
\* assembled, and the returned patient summary begins with its first
\* sentence, lay-translated; it begins with the whole reason clause whenever
\* the assembled summary has no more sentences than the cap of the
\* lengthTier.
ReasonFirstSentenceKept ==
    patient.called =>
        /\ Len(patient.parts) > 0
        /\ patient.parts[1][1] = "reason"
        /\ StartsWith(patient.summary,
                      Sentences(translate_for_patients(patient.parts[1][2]))[1])
        /\ Len(Sentences(PatientAssembled(patient))) <= StatedPatientCap(opts.length)
               => StartsWith(patient.summary,
                             translate_for_patients(patient.parts[1][2]))

\* a reason of several sentences was matched and the summary was capped
ReasonCutByCap ==
    /\ patient.called
    /\ StartsWith(patient.parts[1][2], Sp(<<"You", "came", "to", "the", "hospital",
                                           "because", "of">>))
    /\ Len(Sentences(patient.parts[1][2])) > 1
    /\ Len(Sentences(PatientAssembled(patient))) > StatedPatientCap(opts.length)

\* C9 (as stated): the returned patient summary begins with the reason
\* sentence, "You came to the hospital because of <reason>." lay-translated,
\* or the default sentence.
SummaryBeginsWithReason ==
    patient.called =>
        /\ HasPart(patient, "reason")
        /\ StartsWith(patient.summary, translate_for_patients(PartOf(patient, "reason")))

\* C10 (as the code has it): with include_recommendations true the
\* next-steps clause, "Please <recommendation>" or the default, is always
\* the last clause assembled, and the returned patient summary contains it,
\* lay-translated, whenever the assembled summary has no more sentences than
\* the cap of the lengthTier.
NextStepsKeptWithinCap ==
    (patient.called /\ opts.include_recommendations) =>
        /\ Len(patient.parts) > 0
        /\ patient.parts[Len(patient.parts)][1] = "next_steps"
        /\ StartsWith(patient.parts[Len(patient.parts)][2], <<"Please", " ">>)
        /\ Len(Sentences(PatientAssembled(patient))) <= StatedPatientCap(opts.length)
               => Occurs(translate_for_patients(patient.parts[Len(patient.parts)][2]),
                         patient.summary)

\* a matched recommendation was turned into the next-steps clause and kept
MatchedNextStepsKept ==
    /\ patient.called /\ opts.include_recommendations
    /\ Len(extract_recommendations(text)) > 0
    /\ HasPart(patient, "next_steps")
    /\ Occurs(translate_for_patients(PartOf(patient, "next_steps")), patient.summary)

\* C10 (as stated): with include_recommendations true the returned patient
\* summary contains the next-steps clause, for every text and lengthTier.
SummaryContainsNextSteps ==
    (patient.called /\ opts.include_recommendations) =>
        /\ HasPart(patient, "next_steps")
        /\ Occurs(translate_for_patients(PartOf(patient, "next_steps")), patient.summary)

-----------------------------------------------------------------------------
(* clean_text and protected health information *)

SsnExample == <<"SSN", " ", "123", "-", "45", "-", "6789">>
MrnExample == <<"MRN", ":", " ", "12345">>
DateExample == <<"03", "/", "14", "/", "2024">>
Placeholders == {"SSN", "PHONE", "DATE", "MRN"}

\* C11: clean_text redacts the identifiers: "SSN 123-45-6789" comes out
\* with "[SSN]" and without the digit string, "MRN: 12345" with "[MRN]",
\* "03/14/2024" with "[DATE]"; and every bracketed placeholder in the
\* output of clean_text is one of [SSN], [PHONE], [DATE], [MRN].
PhiExamplesRedacted ==
    cleaned.called =>
        /\ raw = SsnExample =>
              /\ Occurs(<<"[", "SSN", "]">>, cleaned.str)
              /\ ~Occurs(<<"123", "-", "45", "-", "6789">>, cleaned.str)
        /\ raw = MrnExample =>
              /\ Occurs(<<"[", "MRN", "]">>, cleaned.str)
              /\ "12345" \notin Range(cleaned.str)
        /\ raw = DateExample =>
              /\ Occurs(<<"[", "DATE", "]">>, cleaned.str)
              /\ ~Occurs(DateExample, cleaned.str)
        /\ \A i \in 1..Len(cleaned.str) :
              cleaned.str[i] \in {"[", "]"} =>
                  \E j \in {i - 2, i} :
                      /\ j >= 1 /\ j + 2 <= Len(cleaned.str)
                      /\ cleaned.str[j] = "["
                      /\ cleaned.str[j + 1] \in Placeholders
                      /\ cleaned.str[j + 2] = "]"

\* "SSN 123-45-6789" was cleaned: the word stays, the number is replaced
SsnExampleRedacted ==
    /\ cleaned.called
    /\ raw = SsnExample
    /\ cleaned.str = <<"SSN", " ", "[", "SSN", "]", ".">>

-----------------------------------------------------------------------------
(* vital signs *)

VitalsLine == Lines[8]
TwoReadings == Join(<<Lines[11], Lines[8]>>, <<"\n">>)

\* the tokens of the text where a value of the shape starts that follows the
\* label, an optional colon and optional whitespace
ValueStarts(label, kind) ==
    {j \in 1..Len(text) :
        /\ IsNumber(text[j])
        /\ kind = "ratio" =>
              j + 2 <= Len(text) /\ text[j + 1] = "/" /\ IsNumber(text[j + 2])
        /\ \E i \in 1..(j - 1) :
              /\ Lower(text[i]) = label
              /\ \A k \in (i + 1)..(j - 1) :
                    IsSpace(text[k]) \/ (k = i + 1 /\ text[k] = ":")}

\* C12: extract_key_information("BP: 120/80, HR: 72") has vital_signs
\* blood_pressure "120/80" and heart_rate "72" and nothing else; for every
\* text each of the labels bp, hr, temp, rr gives at most one entry, whose
\* value is copied verbatim from the first place in the text where the label
\* is followed by a value of its shape, and a label with no such place gives
\* no entry.
VitalsFromFirstOccurrence ==
    info.called =>
        /\ text = VitalsLine =>
              /\ DOMAIN info.vital_signs = {"blood_pressure", "heart_rate"}
              /\ info.vital_signs["blood_pressure"] = <<"120", "/", "80">>
              /\ info.vital_signs["heart_rate"] = <<"72">>
        /\ DOMAIN info.vital_signs \subseteq
              {"blood_pressure", "heart_rate", "temperature", "respiratory_rate"}
        /\ \A n \in 1..Len(vital_patterns) :
              LET vp == vital_patterns[n]
                  starts == ValueStarts(vp.label, vp.kind)
              IN  IF starts = {} THEN vp.key \notin DOMAIN info.vital_signs
                  ELSE /\ vp.key \in DOMAIN info.vital_signs
                       /\ LET value == info.vital_signs[vp.key]
                          IN  /\ StartsWith(SubSeq(text, Min(starts), Len(text)), value)
                              /\ Len(value) >= (IF vp.kind = "ratio" THEN 3 ELSE 1)
                              /\ Len(value) <= (IF vp.kind = "int" THEN 1 ELSE 3)

\* a text with two blood pressure readings: the first one is reported
FirstReadingReported ==
    /\ info.called
    /\ text = TwoReadings
    /\ info.vital_signs =
          [key \in {"blood_pressure", "heart_rate", "temperature", "respiratory_rate"} |->
              CASE key = "blood_pressure" -> <<"130", "/", "85">>
                [] key = "heart_rate" -> <<"72">>
                [] key = "temperature" -> <<"98", ".", "6">>
                [] key = "respiratory_rate" -> <<"14">>]

\* C13: vital signs survive normalization: every vital sign that
\* extract_key_information finds in a raw text x it finds, with the same
\* value, in clean_text(x); for the raw text "BP: 120/80, HR: 72" the doctor
\* summary generated from clean_text's output has the Vital Signs block
\* "BP 120/80, HR 72".
VitalsSurviveCleaning ==
    /\ cleaned.called =>
          \A key \in DOMAIN VitalSigns(raw) :
              /\ key \in DOMAIN VitalSigns(cleaned.str)
              /\ VitalSigns(cleaned.str)[key] = VitalSigns(raw)[key]
    /\ (doctor.called /\ raw = VitalsLine) =>
          /\ HasPart(doctor, "Vital Signs")
          /\ Occurs(<<"BP", " ", "120", "/", "80", ",", " ", "HR", " ", "72">>,
                    doctor.summary)

-----------------------------------------------------------------------------
(* sections *)

\* C14: the content extract_sections keeps for a header ends at the next
\* vocabulary header or at the end of the text: it never runs over a
\* following, different section ("<other header>:" does not occur in it),
\* in a multi-line text and in a single-line (normalized) one; and only
\* non-empty contents are kept.
SectionStopsAtNextHeader ==
    extracted.called =>
        \A name \in DOMAIN extracted.map :
            /\ Len(extracted.map[name]) > 0
            /\ \A n \in 1..Len(section_headers) :
                  section_headers[n].name # name =>
                      ~Occurs(section_headers[n].lit \o <<":">>, extracted.map[name])

\* C15: clean_text replaces every phone-shaped string of the raw text (three,
\* three and four digits, separated by '-', by '.' or by nothing) with
\* [PHONE]; the normalization steps before the redaction do not keep
\* "555.123.4567" from being redacted.
PhoneNumbersRedacted ==
    cleaned.called =>
        \A i \in 1..Len(raw) :
            PhiMatchLen("phone", raw, i) > 0 =>
                /\ Occurs(<<"[", "PHONE", "]">>, cleaned.str)
                /\ raw[i + PhiMatchLen("phone", raw, i) - 1] \notin Range(cleaned.str)

-----------------------------------------------------------------------------
(* abbreviations *)

\* the punctuation characters a word ends with
TrailingPunctuation(word) ==
    LET inner == {k \in 1..Len(word) : word[k] \notin Punctuation}
    IN  IF inner = {} THEN word
        ELSE SubSeq(word, Max(inner) + 1, Len(word))

\* the words clean_text hands to the abbreviation step for the raw text
WordsToExpand == Words(RemoveArtifacts(CollapseWhitespace(raw)))

\* C16: abbreviation expansion keeps exactly the trailing punctuation: a word
\* whose lower-cased stem, stripped of punctuation, is a key of the table
\* becomes the expansion followed by the punctuation the word ended with and
\* nothing else (the '(' of "(pt)" and the '/' of "c/o" are not moved behind
\* the expansion); every other word is left unchanged.
ExpansionKeepsTrailingPunctuation ==
    cleaned.called =>
        \A k \in 1..Len(WordsToExpand) :
            LET word == WordsToExpand[k]
                stem == StripPunctuation(LowerSeq(word))
                hits == {n \in 1..Len(medical_abbreviations) :
                            medical_abbreviations[n][1] = stem}
            IN  IF hits = {} THEN ExpandWord(word) = word
                ELSE \E n \in hits :
                        ExpandWord(word) =
                            medical_abbreviations[n][2] \o TrailingPunctuation(word)

-----------------------------------------------------------------------------
(* diagnosis and treatment lookups *)

\* the patterns of a list that match somewhere in the text
Matching(pats) ==
    {n \in 1..Len(pats) : Search(text, LowerSet(text), pats[n]).found}

\* the stripped capture of the first pattern, in list order, that matches
CaptureByPriority(pats) ==
    Strip(Search(text, LowerSet(text), pats[Min(Matching(pats))]).cap)

DiagnosisClause(diagnosis) ==
    Sp(<<"Tests", "and", "examinations", "showed", "that", "you", "have">>)
        \o <<" ">> \o LowerSeq(diagnosis) \o <<".">>

\* C17 (as the code has it): the diagnosis lookup is priority-ordered, not
\* position-ordered: the diagnosis is the stripped capture of the first
\* pattern in the order diagnosis, diagnosed with, impression, assessment
\* that matches anywhere in the text, also when a later pattern's keyword
\* stands earlier in the text.  There is no Diagnosis block and no patient
\* diagnosis clause exactly when no pattern matches or the capture of the
\* first matching pattern is blank.
DiagnosisByPriority ==
    LET none == Matching(diagnosis_patterns) = {}
        diagnosis == IF none THEN <<>> ELSE CaptureByPriority(diagnosis_patterns)
    IN  /\ doctor.called =>
              IF Len(diagnosis) = 0 THEN ~HasPart(doctor, "Diagnosis")
              ELSE /\ HasPart(doctor, "Diagnosis")
                   /\ PartOf(doctor, "Diagnosis") = Block(<<"Diagnosis">>, diagnosis)
        /\ patient.called =>
              IF Len(diagnosis) = 0 THEN ~HasPart(patient, "diagnosis")
              ELSE /\ HasPart(patient, "diagnosis")
                   /\ PartOf(patient, "diagnosis") = DiagnosisClause(diagnosis)

AssessmentBeforeDiagnosis == Join(<<Lines[7], Lines[2]>>, <<"\n">>)

\* "Assessment: angina ..." stands before "Diagnosis: Acute myocardial
\* infarction": the diagnosis pattern wins
LaterDiagnosisWins ==
    /\ doctor.called /\ patient.called
    /\ text = AssessmentBeforeDiagnosis
    /\ PartOf(doctor, "Diagnosis") =
          Block(<<"Diagnosis">>, Sp(<<"Acute", "myocardial", "infarction">>))
    /\ PartOf(patient, "diagnosis") =
          DiagnosisClause(Sp(<<"Acute", "myocardial", "infarction">>))

\* C17 (as stated): ... and the result is empty (no Diagnosis block, no
\* patient diagnosis clause) only when none of the four patterns matches.
DiagnosisEmptyOnlyWithoutMatch ==
    /\ (doctor.called /\ ~HasPart(doctor, "Diagnosis")) =>
          Matching(diagnosis_patterns) = {}
    /\ (patient.called /\ ~HasPart(patient, "diagnosis")) =>
          Matching(diagnosis_patterns) = {}

TreatmentClause(treatment) ==
    Sp(<<"Doctors", "provided", "treatment", "including">>)
        \o <<" ">> \o LowerSeq(treatment) \o <<".">>

\* the treatment the text gives in an interpreter run with the str-hash seed
\* (the seed orders the extracted procedures)
ExpectedTreatment(seed) ==
    LET procedures == extract_key_information(text, seed).procedures
    IN  IF Matching(treatment_patterns) # {}
        THEN CaptureByPriority(treatment_patterns)
        ELSE Join(SubSeq(procedures, 1, Min({2, Len(procedures)})), <<",", " ">>)

\* C18: the treatment is the capture of the first pattern in the order
\* treatment, treated with, plan that matches; only when none of the three
\* matches it is the first two extracted procedures joined by ", ", whatever
\* include_procedures says; when no pattern matches and no procedure was
\* extracted there is no Treatment block and no patient treatment clause.
TreatmentFallsBackToProcedures ==
    /\ doctor.called =>
          \E seed \in Seeds :
              LET treatment == ExpectedTreatment(seed)
              IN  IF Len(treatment) = 0 THEN ~HasPart(doctor, "Treatment")
                  ELSE /\ HasPart(doctor, "Treatment")
                       /\ PartOf(doctor, "Treatment") = Block(<<"Treatment">>, treatment)
    /\ patient.called =>
          \E seed \in Seeds :
              LET treatment == ExpectedTreatment(seed)
              IN  IF Len(treatment) = 0 THEN ~HasPart(patient, "treatment")
                  ELSE /\ HasPart(patient, "treatment")
                       /\ PartOf(patient, "treatment") = TreatmentClause(treatment)

\* include_procedures is false and the text names four procedures and no
\* treatment: two procedure names are the Treatment block and the patient
\* treatment clause, and there is no Procedures block
ProceduresShownAsTreatment ==
    /\ doctor.called /\ patient.called
    /\ ~opts.include_procedures
    /\ text = Lines[9]
    /\ Matching(treatment_patterns) = {}
    /\ ~HasPart(doctor, "Procedures")
    /\ \E a, b \in {<<"Mri">>, <<"Biopsy">>, <<"Dialysis">>, <<"Ct", " ", "Scan">>} :
          /\ a # b
          /\ PartOf(doctor, "Treatment") = Block(<<"Treatment">>, a \o <<",", " ">> \o b)
          /\ PartOf(patient, "treatment") = TreatmentClause(a \o <<",", " ">> \o b)

-----------------------------------------------------------------------------
(* stored results *)

\* the rerun with the file in the uploader ends before the stores
RerunFails(up) ==
    \/ ~up.readable
    \/ Len(Strip(text_content(up))) = 0
    \/ Len(Strip(clean_text(text_content(up)))) = 0

\* the five values, all derived from the text of one file and one options value
ResultsOf(up, options, seed) ==
    LET processed == clean_text(text_content(up))
        d == generate_doctor_summary(processed, options, seed).summary
        q == generate_patient_summary(processed, options, seed).summary
    IN  [doctor_summary |-> d, patient_summary |-> q,
         original_length |-> Len(Words(text_content(up))),
         doctor_length |-> Len(Words(d)), patient_length |-> Len(Words(q))]

\* C19: across reruns the stored results change atomically: after every
\* rerun st.session_state holds none of doctor_summary, patient_summary and
\* the three word counts, or all five; a rerun with no file or one that fails
\* (unreadable file, empty text, empty normalized text) leaves them as they
\* were; every other rerun stores all five, derived from the text of the
\* file in the uploader and from the options of that rerun.
StoredResultsAtomic ==
    [][/\ DOMAIN session' \in {{}, SessionKeys}
       /\ IF uploaded' = NoFile \/ RerunFails(uploaded')
          THEN session' = session
          ELSE session' = ResultsOf(uploaded', opts', hashSeed)]_vars

\* results of an earlier file are still stored while the file in the
\* uploader is one whose rerun failed
StaleResultsKept ==
    /\ DOMAIN session = SessionKeys
    /\ uploaded # NoFile
    /\ RerunFails(uploaded)
    /\ \E up \in Uploads \ {uploaded}, o \in Options :
          ~RerunFails(up) /\ session = ResultsOf(up, o, hashSeed)

====
